---- MODULE Spec2Model ----
(***************************************************************************)
(* Verification model of the salesbot repair pipeline:                     *)
(*   agents/repair/classifier.py  RepairClassifier                         *)
(*   agents/repair/executor.py    RepairExecutor                           *)
(*   agents/repair/verifier.py    RepairVerifier                           *)
(*   agents/repair/agent.py       RepairAgent (the orchestrator loop)      *)
(*   agents/monitoring/agent.py   repair queue producer, approval handler  *)
(*   agents/repair/cursor_engine.py  CursorEngine (the code-fix client)    *)
(*                                                                         *)
(* Check names are sequences of string chunks so that str.startswith is a  *)
(* prefix test on sequences: "Service:salesbot-gateway" is                 *)
(* <<"Service:", "salesbot-gateway">>.                                     *)
(***************************************************************************)
EXTENDS Integers, Sequences, FiniteSets, TLC

(* ------------------------------ bounds -------------------------------- *)
\* total number of reports pushed to the repair queue in one behaviour
MaxReports == 4
\* number of clock ticks in one behaviour of the system specification
MaxTicks == 1
\* number of clock ticks in one behaviour of the executor-only specification
MaxExecTicks == 2
\* number of approval callbacks delivered in one behaviour
MaxCallbacks == 2
\* cap of a FailureCounter in the classifier-only specification
MaxCount == 5
\* number of direct Executor.execute calls in the executor-only specification
MaxCalls == 5
\* number of records the modelled _repair_history keeps (the code keeps 100)
HistoryKept == 1
\* reports pushed in the specification with fairness
MaxLiveReports == 2
\* length of the target names handed to the rollback operations, in tokens
MaxTokens == 3
\* monitoring cycles in the specification of monitor and agent
MaxCycles == 3
\* wait_for_completion calls in one behaviour of the code-fix client
MaxWaits == 1
MaxRequests == 2

(* -------------------------- program constants ------------------------- *)
AUTO == 1
APPROVE == 2
CURSOR == 3
MAX_ACTIONS_PER_HOUR == 3
ESCALATION_THRESHOLD == 3
HOUR == 3600
APPROVAL_TIMEOUT == 1800
LOG_RING == 500
\* granularity of the modelled clock, in seconds
TICK == APPROVAL_TIMEOUT
\* wait_for_completion: timeout and poll_interval, in seconds
CURSOR_TIMEOUT == 600
POLL_INTERVAL == 15

(* ------------------------------ check names --------------------------- *)
SvcGateway == <<"Service:", "salesbot-gateway">>
SvcTelegram == <<"Service:", "salesbot-telegram">>
SvcMonitoring == <<"Service:", "salesbot-monitoring">>
SvcRepair == <<"Service:", "salesbot-repair">>
DkrPostgres == <<"Docker", ":", "salesbot-postgres">>
DkrRedis == <<"Docker", ":", "salesbot-redis">>
DkrWebui == <<"Docker", ":", "salesbot-webui">>
NmRedis == <<"Redis">>
NmPostgres == <<"PostgreSQL">>
NmGateway == <<"Gateway API">>
NmDisk == <<"Disk">>
NmCPU == <<"CPU">>
NmRAM == <<"RAM">>
\* names the health sweep produces that match no rule
NmDispatcher == <<"Dispatcher">>
NmDocker == <<"Docker">>
NmAgent == <<"Agent:", "etm">>
\* a name that only prefix-matches a rule (not a key of the name maps)
NmRedisExtra == <<"Redis", " replica">>

Range(seq) == {seq[i] : i \in 1..Len(seq)}

StartsWith(s, p) ==
    /\ Len(p) <= Len(s)
    /\ SubSeq(s, 1, Len(p)) = p

RECURSIVE RStripStar(_)
RStripStar(p) ==
    IF p # <<>> /\ p[Len(p)] = "*" THEN RStripStar(SubSeq(p, 1, Len(p) - 1)) ELSE p

(* ------------------------------ classifier ---------------------------- *)
REPAIR_RULES == <<
    [pattern |-> SvcGateway, problem_type |-> "service_down", level |-> AUTO, action |-> "restart_systemd"],
    [pattern |-> SvcTelegram, problem_type |-> "service_down", level |-> AUTO, action |-> "restart_systemd"],
    [pattern |-> SvcMonitoring, problem_type |-> "service_down", level |-> AUTO, action |-> "restart_systemd"],
    [pattern |-> SvcRepair, problem_type |-> "service_down", level |-> AUTO, action |-> "restart_systemd"],
    [pattern |-> DkrPostgres, problem_type |-> "container_down", level |-> AUTO, action |-> "restart_container"],
    [pattern |-> DkrRedis, problem_type |-> "container_down", level |-> AUTO, action |-> "restart_container"],
    [pattern |-> DkrWebui, problem_type |-> "container_down", level |-> AUTO, action |-> "restart_container"],
    [pattern |-> NmRedis, problem_type |-> "redis_down", level |-> AUTO, action |-> "restart_container"],
    [pattern |-> NmPostgres, problem_type |-> "postgres_down", level |-> AUTO, action |-> "restart_container"],
    [pattern |-> NmGateway, problem_type |-> "gateway_error", level |-> AUTO, action |-> "restart_systemd"],
    [pattern |-> NmDisk, problem_type |-> "disk_full", level |-> AUTO, action |-> "cleanup_disk"],
    [pattern |-> NmCPU, problem_type |-> "high_cpu", level |-> AUTO, action |-> "log_and_wait"],
    [pattern |-> NmRAM, problem_type |-> "high_ram", level |-> AUTO, action |-> "log_and_wait"] >>

\* dict.get(check_name, "") on SERVICE_MAP
SERVICE_MAP(name) ==
    CASE name = SvcGateway -> "salesbot-gateway"
      [] name = SvcTelegram -> "salesbot-telegram"
      [] name = SvcMonitoring -> "salesbot-monitoring"
      [] name = SvcRepair -> "salesbot-repair"
      [] name = NmGateway -> "salesbot-gateway"
      [] OTHER -> ""

\* dict.get(check_name, "") on CONTAINER_MAP
CONTAINER_MAP(name) ==
    CASE name = DkrPostgres -> "salesbot-postgres"
      [] name = DkrRedis -> "salesbot-redis"
      [] name = DkrWebui -> "salesbot-webui"
      [] name = NmRedis -> "salesbot-redis"
      [] name = NmPostgres -> "salesbot-postgres"
      [] OTHER -> ""

\* the value of "no plan" (None); level 0 is no RepairLevel
NoPlan == [level |-> 0, action |-> "", source_check |-> <<>>, problem_type |-> "",
           action_details |-> [service_name |-> "", container_name |-> "", context |-> 0]]

\* _failure_counts.get(check_name, 0)
GetCount(fc, name) == IF name \in DOMAIN fc THEN fc[name] ELSE 0

\* PopCount that pops nothing
PopCount_Keep(fc, name) == fc

\* _failure_counts.pop(check_name, None)
PopCount(fc, name) == [n \in (DOMAIN fc) \ {name} |-> fc[n]]

\* _failure_counts[check_name] = count
SetCount(fc, name, count) == [n \in (DOMAIN fc) \cup {name} |-> IF n = name THEN count ELSE fc[n]]

RuleMatches(name, rule) ==
    name = rule.pattern \/ StartsWith(name, RStripStar(rule.pattern))

\* index of the first matching rule, 0 if none
FirstMatch(name) ==
    IF \E i \in 1..Len(REPAIR_RULES) : RuleMatches(name, REPAIR_RULES[i])
    THEN CHOOSE i \in 1..Len(REPAIR_RULES) :
            /\ RuleMatches(name, REPAIR_RULES[i])
            /\ \A j \in 1..(i - 1) : ~RuleMatches(name, REPAIR_RULES[j])
    ELSE 0

\* action_details: absent keys read as "" (every reader uses .get(key, ""));
\* context carries the failure count embedded in the diagnostic text
build_action_details(fc, name, action) ==
    [service_name |-> IF action = "restart_systemd" THEN SERVICE_MAP(name) ELSE "",
     container_name |-> IF action = "restart_container" THEN CONTAINER_MAP(name) ELSE "",
     context |-> IF action = "cursor_diagnose" THEN GetCount(fc, name) ELSE 0]

\* Escalates that holds for the first count above the threshold only
Escalates_Once(count, level) == count = ESCALATION_THRESHOLD + 1 /\ level = AUTO

\* Escalates with >= in place of >
Escalates_AtThreshold(count, level) == count >= ESCALATION_THRESHOLD /\ level = AUTO

Escalates(count, level) == count > ESCALATION_THRESHOLD /\ level = AUTO

FailingStatus(status) == status \in {"critical", "warning"}

\* FallbackPlan that returns no plan
FallbackPlan_None(name) == NoPlan

\* the tail of classify, reached when no rule matches: agent checks, then
\* the unknown problem
FallbackPlan(name) ==
    IF StartsWith(name, <<"Agent:">>)
    THEN [level |-> APPROVE, action |-> "investigate_agent",
          source_check |-> name, problem_type |-> "agent_error",
          action_details |-> [service_name |-> "", container_name |-> "", context |-> 0]]
    ELSE [level |-> APPROVE, action |-> "notify_admin",
          source_check |-> name, problem_type |-> "unknown",
          action_details |-> [service_name |-> "", container_name |-> "", context |-> 0]]

\* RepairClassifier.classify: the returned plan and the new _failure_counts
classify(fc, name, status) ==
    IF ~FailingStatus(status)
    THEN [plan |-> NoPlan, fc |-> PopCount(fc, name)]
    ELSE LET i == FirstMatch(name) IN
         IF i # 0
         THEN LET rule == REPAIR_RULES[i]
                  count == GetCount(fc, name) + 1
                  fc2 == SetCount(fc, name, count)
                  esc == Escalates(count, rule.level)
                  action == IF esc THEN "cursor_diagnose" ELSE rule.action
              IN [plan |-> [level |-> IF esc THEN CURSOR ELSE rule.level,
                            action |-> action,
                            source_check |-> name,
                            problem_type |-> rule.problem_type,
                            action_details |-> build_action_details(fc2, name, action)],
                  fc |-> fc2]
         ELSE [plan |-> FallbackPlan(name), fc |-> fc]

\* reset_failure_count that leaves the counters alone
reset_failure_count_Noop(fc, name) == fc

\* RepairClassifier.reset_failure_count
reset_failure_count(fc, name) == PopCount(fc, name)

(* ------------------------------- executor ----------------------------- *)
ALLOWED_SERVICES == {"salesbot-gateway", "salesbot-telegram", "salesbot-monitoring", "salesbot-repair"}
ALLOWED_CONTAINERS == {"salesbot-postgres", "salesbot-redis", "salesbot-webui"}

\* What the command environment does with the commands of one execute call:
\* user   - systemctl --user restart: exit 0, failure with a recognised
\*          signature, failure with other output, or a raised exception
\* sudo   - sudo systemctl restart; docker - docker restart;
\* journal - journalctl --user --vacuum-time
Outcomes == [user : {"ok", "sig", "other", "raise"},
             sudo : {"ok", "fail", "raise"},
             docker : {"ok", "fail", "raise"},
             journal : {"ok", "fail", "raise"}]

\* the outcomes that matter to one action (the others are fixed)
OutcomesOf(action) ==
    {o \in Outcomes :
        /\ (action # "restart_systemd" => o.user = "ok" /\ o.sudo = "ok")
        /\ (action # "restart_container" => o.docker = "ok")
        /\ (action # "cleanup_disk" => o.journal = "ok")}

Cmd(c, t) == [cmd |-> c, target |-> t]
Res(s, m) == [success |-> s, message |-> m]

\* ServiceAllowed without the allow-list
ServiceAllowed_Any(service) == TRUE

ServiceAllowed(service) == service \in ALLOWED_SERVICES
ContainerAllowed(container) == container \in ALLOWED_CONTAINERS

\* RepairExecutor._do_restart_systemd: result, commands issued, raised or not
do_restart_systemd(details, o) ==
    LET service == details.service_name IN
    IF service = ""
    THEN [result |-> Res(FALSE, "no_service_name"), cmds |-> <<>>, raised |-> FALSE]
    ELSE IF ~ServiceAllowed(service)
    THEN [result |-> Res(FALSE, "service_not_allowed"), cmds |-> <<>>, raised |-> FALSE]
    ELSE IF o.user = "ok"
    THEN [result |-> Res(TRUE, "restarted_user_mode"),
          cmds |-> <<Cmd("systemctl_user_restart", service)>>, raised |-> FALSE]
    ELSE LET cs == <<Cmd("systemctl_user_restart", service), Cmd("sudo_systemctl_restart", service)>> IN
         CASE o.sudo = "ok" -> [result |-> Res(TRUE, "restarted"), cmds |-> cs, raised |-> FALSE]
           [] o.sudo = "fail" -> [result |-> Res(FALSE, "restart_failed"), cmds |-> cs, raised |-> FALSE]
           [] OTHER -> [result |-> Res(FALSE, "raised"), cmds |-> cs, raised |-> TRUE]

\* RepairExecutor._do_restart_container
do_restart_container(details, o) ==
    LET container == details.container_name IN
    IF container = ""
    THEN [result |-> Res(FALSE, "no_container_name"), cmds |-> <<>>, raised |-> FALSE]
    ELSE IF ~ContainerAllowed(container)
    THEN [result |-> Res(FALSE, "container_not_allowed"), cmds |-> <<>>, raised |-> FALSE]
    ELSE LET cs == <<Cmd("docker_restart", container)>> IN
         CASE o.docker = "ok" -> [result |-> Res(TRUE, "restarted"), cmds |-> cs, raised |-> FALSE]
           [] o.docker = "fail" -> [result |-> Res(FALSE, "restart_failed"), cmds |-> cs, raised |-> FALSE]
           [] OTHER -> [result |-> Res(FALSE, "raised"), cmds |-> cs, raised |-> TRUE]

\* RepairExecutor._do_cleanup_disk: every sub-step swallows its own fault
do_cleanup_disk(details, o) ==
    [result |-> Res(TRUE, "cleanup_completed"),
     cmds |-> <<Cmd("docker_system_prune", ""), Cmd("journalctl_user_vacuum", "")>>
              \o (IF o.journal = "fail" THEN <<Cmd("sudo_journalctl_vacuum", "")>> ELSE <<>>)
              \o <<Cmd("sudo_find_tmp_delete", "")>>,
     raised |-> FALSE]

\* getattr(self, f"_do_{action}", None) is not None
HasHandler(action) == action \in {"restart_systemd", "restart_container", "cleanup_disk"}

Handler(action, details, o) ==
    CASE action = "restart_systemd" -> do_restart_systemd(details, o)
      [] action = "restart_container" -> do_restart_container(details, o)
      [] OTHER -> do_cleanup_disk(details, o)

\* Prune that keeps the entries exactly one hour old
Prune_Inclusive(log, t) == SelectSeq(log, LAMBDA x : t - x <= HOUR)

\* the list comprehension of _rate_check: entries younger than one hour
Prune(log, t) == SelectSeq(log, LAMBDA x : t - x < HOUR)

\* RepairExecutor._rate_check: verdict and the pruned _action_log
rate_check(log, t) ==
    LET pruned == Prune(log, t) IN
    [ok |-> ~(Len(pruned) >= MAX_ACTIONS_PER_HOUR), log |-> pruned]

\* the _action_log after a handler has come back (returned or raised)
AfterHandler(log, t, h) == IF h.raised THEN log ELSE Append(log, t)

\* execute with the rate check ahead of the log_and_wait branch
execute_RateFirst(log, t, action, details, o) ==
    LET rc == rate_check(log, t) IN
    IF ~rc.ok
    THEN [result |-> Res(FALSE, "rate_limited"), log |-> rc.log, cmds |-> <<>>,
          limited |-> TRUE, handler |-> FALSE]
    ELSE IF action = "log_and_wait"
    THEN [result |-> Res(TRUE, "logged"), log |-> rc.log, cmds |-> <<>>,
          limited |-> FALSE, handler |-> FALSE]
    ELSE IF ~HasHandler(action)
    THEN [result |-> Res(FALSE, "unknown_action"), log |-> rc.log, cmds |-> <<>>,
          limited |-> FALSE, handler |-> FALSE]
    ELSE LET h == Handler(action, details, o) IN
         [result |-> IF h.raised THEN Res(FALSE, "error_executing") ELSE h.result,
          log |-> AfterHandler(rc.log, t, h),
          cmds |-> h.cmds, limited |-> FALSE, handler |-> TRUE]

\* RepairExecutor.execute: result, new _action_log, commands issued,
\* whether the rate check was passed and whether a handler was invoked
execute(log, t, action, details, o) ==
    IF action = "log_and_wait"
    THEN [result |-> Res(TRUE, "logged"), log |-> log, cmds |-> <<>>,
          limited |-> FALSE, handler |-> FALSE]
    ELSE LET rc == rate_check(log, t) IN
         IF ~rc.ok
         THEN [result |-> Res(FALSE, "rate_limited"), log |-> rc.log, cmds |-> <<>>,
               limited |-> TRUE, handler |-> FALSE]
         ELSE IF ~HasHandler(action)
         THEN [result |-> Res(FALSE, "unknown_action"), log |-> rc.log, cmds |-> <<>>,
               limited |-> FALSE, handler |-> FALSE]
         ELSE LET h == Handler(action, details, o) IN
              [result |-> IF h.raised THEN Res(FALSE, "error_executing") ELSE h.result,
               log |-> AfterHandler(rc.log, t, h),
               cmds |-> h.cmds, limited |-> FALSE, handler |-> TRUE]

(* ------------------------------- verifier ----------------------------- *)
\* FailingNames that takes only critical for failing
FailingNames_CriticalOnly(sweep) ==
    {sweep[i].name : i \in {j \in 1..Len(sweep) : sweep[j].status = "critical"}}

\* a health sweep (HealthChecks.run_all) is a sequence of [name, status]
FailingNames(sweep) == {sweep[i].name : i \in {j \in 1..Len(sweep) : FailingStatus(sweep[j].status)}}

\* verify without the check_found flag: an absent check counts as resolved
verify_AbsentResolved(name, pre, post) ==
    LET hits == {i \in 1..Len(post) : post[i].name = name}
        first == CHOOSE i \in hits : \A j \in hits : i <= j
        original_resolved == hits = {} \/ ~FailingStatus(post[first].status)
        new_problems == IF pre # <<>> THEN FailingNames(post) \ FailingNames(pre) ELSE {}
    IN [success |-> original_resolved /\ new_problems = {},
        original_resolved |-> original_resolved,
        new_problems |-> new_problems]

\* RepairVerifier.verify on the post-repair sweep `post`
verify(name, pre, post) ==
    LET hits == {i \in 1..Len(post) : post[i].name = name}
        check_found == hits # {}
        first == CHOOSE i \in hits : \A j \in hits : i <= j
        original_resolved == check_found /\ ~FailingStatus(post[first].status)
        new_problems == IF pre # <<>> THEN FailingNames(post) \ FailingNames(pre) ELSE {}
    IN [success |-> original_resolved /\ new_problems = {},
        original_resolved |-> original_resolved,
        new_problems |-> new_problems]

(* ------------------------------- rollback ----------------------------- *)
\* A target name is a sequence of tokens: words of letters and digits, and
\* single characters that are neither.
Words == {"salesbot", "gateway", "redis", "nginx"}
Tokens == Words \cup {"-", ";", "/"}

\* the string a target name stands for
RECURSIVE Text(_)
Text(target) == IF target = <<>> THEN "" ELSE Head(target) \o Text(Tail(target))

\* SYSTEMD_SERVICE_PATTERN.match: ^[a-zA-Z0-9][a-zA-Z0-9._-]*$
SYSTEMD_SERVICE_PATTERN(target) ==
    /\ target # <<>>
    /\ target[1] \in Words
    /\ \A i \in 1..Len(target) : target[i] \in Words \cup {".", "_", "-"}

\* DOCKER_CONTAINER_PATTERN.match: ^[a-zA-Z0-9][a-zA-Z0-9._\/-]*$
DOCKER_CONTAINER_PATTERN(target) ==
    /\ target # <<>>
    /\ target[1] \in Words
    /\ \A i \in 1..Len(target) : target[i] \in Words \cup {".", "_", "/", "-"}

\* RepairVerifier.rollback_systemd; o is what the stop command does
rollback_systemd(target, o) ==
    IF target = <<>> \/ ~SYSTEMD_SERVICE_PATTERN(target)
    THEN [cmds |-> <<>>, success |-> FALSE]
    ELSE [cmds |-> <<Cmd("sudo_systemctl_stop", Text(target))>>, success |-> o = "ok"]

\* RepairVerifier.rollback_container
rollback_container(target, o) ==
    IF target = <<>> \/ ~DOCKER_CONTAINER_PATTERN(target)
    THEN [cmds |-> <<>>, success |-> FALSE]
    ELSE [cmds |-> <<Cmd("docker_stop", Text(target))>>, success |-> o = "ok"]

(* ---------------------------- code-fix client ------------------------- *)
\* the statuses wait_for_completion takes for final
TERMINAL_OK == {"completed", "succeeded", "done"}
TERMINAL_FAILED == {"failed", "error", "cancelled"}

\* the statuses a job reports; "unknown" is what data.get("status", "unknown")
\* yields for a body without a status
JobStatuses == {"running", "unknown"} \cup TERMINAL_OK \cup TERMINAL_FAILED

\* What the network does with one request: an answer with a success code
\* (the body of a status poll carries the job status), an answer with
\* another code, or an exception of the HTTP client (timeout, no route).
Responses ==
    {[kind |-> "ok", status |-> st] : st \in JobStatuses}
    \cup {[kind |-> k, status |-> ""] : k \in {"http_error", "raise"}}

\* the answers a request can get: the service answers a request without a
\* bearer token with an error code, if it is reached at all
Answers(api_key) == IF api_key = "" THEN {r \in Responses : r.kind # "ok"} ELSE Responses

\* the dict a method of the client returns
CurRes(success, error, status) == [success |-> success, error |-> error, status |-> status]
NoCurRes == CurRes(FALSE, "", "")

\* CursorEngine.launch_repair: returned dict and the requests sent
launch_repair(api_key, resp) ==
    IF api_key = ""
    THEN [result |-> CurRes(FALSE, "api_key_not_configured", ""), net |-> {}]
    ELSE [result |-> CASE resp.kind = "ok" -> CurRes(TRUE, "", "launched")
                       [] resp.kind = "http_error" -> CurRes(FALSE, "cursor_api_returned", "")
                       [] OTHER -> CurRes(FALSE, "failed_to_reach_cursor_api", ""),
          net |-> {"POST_agents"}]

\* CursorEngine.get_agent_status
get_agent_status(api_key, resp) ==
    [result |-> CASE resp.kind = "ok" -> CurRes(TRUE, "", resp.status)
                  [] resp.kind = "http_error" -> CurRes(FALSE, "http_status", "")
                  [] OTHER -> CurRes(FALSE, "exception", ""),
     net |-> {"GET_agent"}]

\* CursorEngine.send_followup
send_followup(api_key, resp) ==
    [result |-> CASE resp.kind = "ok" -> CurRes(TRUE, "", "")
                  [] resp.kind = "http_error" -> CurRes(FALSE, "http_status", "")
                  [] OTHER -> CurRes(FALSE, "exception", ""),
     net |-> {"POST_followup"}]

\* TimedOut with >= in place of >
TimedOut_AtTimeout(elapsed, timeout) == elapsed >= timeout

\* the test at the head of the loop of wait_for_completion
TimedOut(elapsed, timeout) == elapsed > timeout

\* One iteration of the loop of wait_for_completion: whether the method
\* returns and what, whether it polled and what it saw, the requests sent
\* and the sleep that follows.
wait_iteration(api_key, elapsed, timeout, resp) ==
    IF TimedOut(elapsed, timeout)
    THEN [returned |-> TRUE, result |-> CurRes(FALSE, "timed_out", ""),
          polled |-> FALSE, seen |-> "", net |-> {}, sleep |-> 0]
    ELSE LET st == get_agent_status(api_key, resp) IN
         IF ~st.result.success
         THEN [returned |-> FALSE, result |-> NoCurRes, polled |-> TRUE,
               seen |-> "poll_failed", net |-> st.net, sleep |-> POLL_INTERVAL]
         ELSE IF st.result.status \in TERMINAL_OK
         THEN [returned |-> TRUE, result |-> CurRes(TRUE, "", st.result.status),
               polled |-> TRUE, seen |-> st.result.status, net |-> st.net, sleep |-> 0]
         ELSE IF st.result.status \in TERMINAL_FAILED
         THEN [returned |-> TRUE, result |-> CurRes(FALSE, "agent_failed", st.result.status),
               polled |-> TRUE, seen |-> st.result.status, net |-> st.net, sleep |-> 0]
         ELSE [returned |-> FALSE, result |-> NoCurRes, polled |-> TRUE,
               seen |-> st.result.status, net |-> st.net, sleep |-> POLL_INTERVAL]

(* -------------------------------- state ------------------------------- *)
VARIABLES
    queue,           \* Redis list repair:tasks
    npushed,         \* number of reports pushed so far
    previous_states, \* MonitoringAgent._previous_states
    failure_counts,  \* RepairClassifier._failure_counts
    action_log,      \* RepairExecutor._action_log
    now,             \* time.time(), seconds
    approvals,       \* Redis keys repair:approvals:<id> -> value
    next_id,         \* the next fresh request id (uuid4)
    ncallbacks,      \* number of approval callbacks delivered so far
    repair_history,  \* RepairAgent._repair_history
    repair_log,      \* length of the Redis list repair:log
    pc,              \* position of the RepairAgent coroutine
    task,            \* the dequeued report
    plan,            \* the RepairPlan of the cycle
    pre_state,       \* the pre-repair sweep of the cycle
    result,          \* the result dict of the cycle
    request_id,      \* the request id of the cycle, 0 if none
    wait_start,      \* start of _wait_approval
    trace,           \* the calls of the current cycle and what they did
    attempts,        \* times of the handler invocations of the last hour
    streak,          \* failing classify calls per rule-matched check since its counter was cleared
    ncalls           \* number of direct calls, or of monitoring cycles, in a component specification

vars == <<queue, npushed, previous_states, failure_counts, action_log, now, approvals, next_id,
          ncallbacks, repair_history, repair_log, pc, task, plan, pre_state,
          result, request_id, wait_start, trace, attempts, streak, ncalls>>

monitorVars == <<queue, npushed, previous_states>>
classifierVars == <<failure_counts, streak>>
executorVars == <<action_log, attempts>>
approvalVars == <<approvals, ncallbacks>>
logVars == <<repair_history, repair_log>>
cycleVars == <<task, plan, pre_state, result, request_id, wait_start>>

NoTask == [name |-> <<>>, status |-> ""]
NoResult == [success |-> FALSE, message |-> ""]
NoDetails == [service_name |-> "", container_name |-> "", context |-> 0]

\* no execute call: the action of a call is never ""
NoExec == [action |-> "", details |-> NoDetails, prior |-> 0, window |-> 0,
           limited |-> FALSE, handler |-> FALSE, raised |-> FALSE, cmds |-> <<>>,
           result |-> NoResult, user |-> ""]

\* no classify call: the status of a call is never ""
NoClassify == [name |-> <<>>, status |-> "", before |-> 0, plan |-> NoPlan, escalated |-> {}]

\* no verify call, no rollback call, no monitoring cycle
NoVerify == [name |-> <<>>, pre |-> <<>>, post |-> <<>>, called |-> FALSE,
             out |-> [success |-> FALSE, original_resolved |-> FALSE, new_problems |-> {}]]
NoRollback == [kind |-> "", target |-> <<>>, cmds |-> <<>>, success |-> FALSE]
NoCycle == [sweep |-> <<>>, pushed |-> {}, after |-> "none"]

\* the code-fix client: its api_key and the record of its last call (the
\* method, what it returned, the requests it sent; for wait_for_completion
\* the polls made, the last poll and the elapsed time it last computed)
NoCursor == [api_key |-> "", call |-> "", returned |-> FALSE, result |-> NoCurRes,
             net |-> {}, polls |-> 0, seen |-> "", elapsed |-> 0]

\* the coroutines that run _run_cycle: the loop of start and a /check
\* command; of each, where it is and the sweep it works on; and the statuses
\* of the gateway service in the order run_all returned them
Coroutines == {"periodic", "manual"}
NoCheckCycles == [co |-> [c \in Coroutines |-> [at |-> "idle", sweep |-> <<>>]], seen |-> <<>>]

\* ApprovalManager after __init__: _pending is empty. `pending` maps an id to
\* the state of its future, `calls` maps the id of every request_approval
\* call in flight to the await it stands at, `returned` maps the id of a
\* finished call to how it ended, `last` is the last handle_callback.
NoManager == [pending |-> <<>>, calls |-> <<>>, returned |-> <<>>, nids |-> 0, ncb |-> 0,
              last |-> [id |-> 0, took |-> FALSE]]

\* no callback: the user of a callback is never ""
NoCallback == [user |-> "", data |-> <<>>, answer |-> ""]

NoTrace == [cls |-> NoClassify, exec |-> NoExec, launched |-> FALSE,
            ver |-> NoVerify, rb |-> NoRollback, mon |-> NoCycle, cur |-> NoCursor,
            chk |-> NoCheckCycles, cb |-> NoCallback, am |-> NoManager,
            verify_called |-> FALSE, verification |-> "none",
            wait_result |-> "none", wait_returned |-> "none", decisions |-> <<>>,
            notes |-> <<>>, records |-> 0, saved |-> 0]

InitState ==
    /\ queue = <<>>
    /\ npushed = 0
    /\ previous_states = <<>>
    /\ failure_counts = <<>>
    /\ action_log = <<>>
    /\ now = 0
    /\ approvals = <<>>
    /\ next_id = 1
    /\ ncallbacks = 0
    /\ repair_history = <<>>
    /\ repair_log = 0
    /\ pc = "idle"
    /\ task = NoTask
    /\ plan = NoPlan
    /\ pre_state = <<>>
    /\ result = NoResult
    /\ request_id = 0
    /\ wait_start = 0
    /\ attempts = <<>>
    /\ streak = <<>>
    /\ ncalls = 0

Init ==
    /\ InitState
    /\ trace = NoTrace

(* ------------------------- effects on components ---------------------- *)
\* the record of a classify call made in the current state
ClsRec(name, status) ==
    [name |-> name, status |-> status, before |-> GetCount(failure_counts, name),
     plan |-> classify(failure_counts, name, status).plan, escalated |-> {}]

\* the record of a direct classify call, which also keeps the checks whose
\* plan was escalated by some call up to this one
ClsRecWithHistory(name, status) ==
    LET rec == ClsRec(name, status) IN
    [rec EXCEPT !.escalated = trace.cls.escalated
                              \cup (IF rec.plan.level = CURSOR THEN {name} ELSE {})]

\* a classify call on the classifier of the agent
ClassifyEffect(name, status) ==
    /\ failure_counts' = classify(failure_counts, name, status).fc
    /\ streak' = IF ~FailingStatus(status) THEN PopCount(streak, name)
                 ELSE IF FirstMatch(name) = 0 THEN streak
                 ELSE SetCount(streak, name, GetCount(streak, name) + 1)

\* a reset_failure_count call
ResetEffect(name) ==
    /\ failure_counts' = reset_failure_count(failure_counts, name)
    /\ streak' = PopCount(streak, name)

\* the record of an execute call made in the current state, with outcome o
ExecRec(action, details, o) ==
    LET r == execute(action_log, now, action, details, o) IN
    [action |-> action, details |-> details,
     prior |-> Len(Prune(attempts, now)), window |-> Len(Prune(action_log, now)),
     limited |-> r.limited, handler |-> r.handler,
     raised |-> r.result.message = "error_executing",
     cmds |-> r.cmds, result |-> r.result, user |-> ""]

\* the record of a direct call, which also keeps what the unprivileged
\* restart did when the call made one
ExecRecWithUser(action, details, o) ==
    LET rec == ExecRec(action, details, o) IN
    [rec EXCEPT !.user = IF \E i \in 1..Len(rec.cmds) : rec.cmds[i].cmd = "systemctl_user_restart"
                         THEN o.user ELSE ""]

\* an execute call on the executor of the agent, with outcome o of its commands
ExecEffect(action, details, o) ==
    LET r == execute(action_log, now, action, details, o) IN
    /\ action_log' = r.log
    /\ attempts' = IF r.handler THEN Append(Prune(attempts, now), now)
                   ELSE Prune(attempts, now)

(* ------------------------------ environment --------------------------- *)
\* the failing reports the health sweep of the monitor produces
Reports == {[name |-> SvcGateway, status |-> "critical"],
            [name |-> NmDispatcher, status |-> "critical"]}

\* the sweeps HealthChecks.run_all returns in the system specification
MainSweeps == {<<[name |-> SvcGateway, status |-> s1], [name |-> NmCPU, status |-> s2]>> :
                  s1 \in {"ok", "critical"}, s2 \in {"ok", "warning"}}

\* the pre-repair sweeps of the system specification: the CPU check is fine
PreSweeps == {sw \in MainSweeps : sw[2].status = "ok"}

\* The agent is in one of its sleeps (queue poll, approval poll). Its other
\* steps take seconds against a clock tick of half an hour, so the clock is
\* let tick only while the agent sleeps.
Suspended == pc \in {"idle", "wait"}

\* MonitoringAgent._push_repair_task: rpush on repair:tasks. The agent reads
\* the queue only in _dequeue, so a push made during a cycle is delivered
\* here as one made when the agent is back at its queue poll.
PushRepairTask(report) ==
    /\ pc = "idle"
    /\ npushed < MaxReports
    /\ queue' = Append(queue, report)
    /\ npushed' = npushed + 1
    /\ UNCHANGED <<previous_states, classifierVars, executorVars, approvalVars, logVars, cycleVars,
                   now, next_id, pc, trace, ncalls>>

\* the key of a request id: f"{APPROVAL_QUEUE}:{request_id}"
ApprovalKey(id) == id

\* the value handle_repair_approval writes
DecisionValue(approved) == IF approved THEN "approved" ELSE "rejected"

\* r.set(key, value, ex=3600) on the approval keys. A key lives 3600 s and
\* the only reader, the wait for its id, ends within 1800 s of the request,
\* so no read ever meets an expired key: keys are kept without their TTL.
SetDecision(ap, id, value) ==
    [k \in (DOMAIN ap) \cup {id} |-> IF k = id THEN value ELSE ap[k]]

\* MonitoringAgent.handle_repair_approval, for the id of a request that was
\* sent; a click that comes while no request is awaited is delivered here as
\* one that comes during the next wait
HandleRepairApproval(id, approved) ==
    /\ pc = "wait"
    /\ ncallbacks < MaxCallbacks
    /\ id \in 1..(next_id - 1)
    /\ approvals' = SetDecision(approvals, ApprovalKey(id), DecisionValue(approved))
    /\ trace' = IF id = request_id
                THEN [trace EXCEPT !.decisions = Append(@, DecisionValue(approved))]
                ELSE trace
    /\ ncallbacks' = ncallbacks + 1
    /\ UNCHANGED <<monitorVars, classifierVars, executorVars, logVars, cycleVars,
                   now, next_id, pc, ncalls>>

\* the admin of the settings and the users that send callbacks
ADMIN_USER_ID == "admin"
Users == {ADMIN_USER_ID, "other"}

\* IsAdmin that lets every user through
IsAdmin_Any(user) == TRUE

\* callback.from_user.id != ADMIN_USER_ID, negated
IsAdmin(user) == user = ADMIN_USER_ID

\* str.split(":") on a text given in chunks, ":" being a chunk of its own
RECURSIVE Split(_)
Split(s) ==
    IF \A i \in 1..Len(s) : s[i] # ":"
    THEN <<s>>
    ELSE LET i == CHOOSE k \in 1..Len(s) : s[k] = ":" /\ \A j \in 1..(k - 1) : s[j] # ":"
         IN <<SubSeq(s, 1, i - 1)>> \o Split(SubSeq(s, i + 1, Len(s)))

\* The approval key of an id given as text. The ids the agent issues are
\* written as numbers; 0 is the key of every other text, which no wait reads.
KeyOfText(text) ==
    IF \E n \in 1..MaxReports : text = <<ToString(n)>>
    THEN CHOOSE n \in 1..MaxReports : text = <<ToString(n)>>
    ELSE 0

\* the callback data that reach the bot
CallbackData ==
    {<<"repair_", a, ":", t>> : a \in {"approve", "reject", "details"}, t \in {"1", "2", "zz"}}
    \cup {<<"repair_", "approve">>, <<"repair_", "approve", ":">>,
          <<"repair_", "approve", ":", "1", ":", "1">>, <<"repair_", ":", "1">>}

\* handle_repair_callback: the approvals it leaves, what it answers, and the
\* key and value it has written, if any
handle_repair_callback(ap, user, data) ==
    LET parts == Split(data)
        none == [approvals |-> ap, wrote |-> FALSE, key |-> 0, value |-> ""]
    IN IF ~IsAdmin(user) THEN [none EXCEPT !.value = "access_denied"]
       ELSE IF Len(parts) # 2 THEN [none EXCEPT !.value = "invalid_callback"]
       ELSE IF parts[1] = <<"repair_", "approve">>
       THEN [approvals |-> SetDecision(ap, ApprovalKey(KeyOfText(parts[2])), DecisionValue(TRUE)),
             wrote |-> TRUE, key |-> KeyOfText(parts[2]), value |-> DecisionValue(TRUE)]
       ELSE IF parts[1] = <<"repair_", "reject">>
       THEN [approvals |-> SetDecision(ap, ApprovalKey(KeyOfText(parts[2])), DecisionValue(FALSE)),
             wrote |-> TRUE, key |-> KeyOfText(parts[2]), value |-> DecisionValue(FALSE)]
       ELSE [none EXCEPT !.value = "unknown_action"]

\* A callback query reaches the bot during an approval wait: the filter
\* F.data.startswith("repair_"), then handle_repair_callback.
HandleRepairCallback(user, data) ==
    /\ pc = "wait"
    /\ ncallbacks < MaxCallbacks
    /\ StartsWith(data, <<"repair_">>)
    /\ LET out == handle_repair_callback(approvals, user, data) IN
       /\ approvals' = out.approvals
       /\ trace' = [trace EXCEPT !.cb = [user |-> user, data |-> data, answer |-> out.value],
                                 !.decisions = IF out.wrote /\ out.key = request_id
                                               THEN Append(@, out.value) ELSE @]
    /\ ncallbacks' = ncallbacks + 1
    /\ UNCHANGED <<monitorVars, classifierVars, executorVars, logVars, cycleVars,
                   now, next_id, pc, ncalls>>

\* time passes, at most `max` times
Tick(max) ==
    /\ Suspended
    /\ now < max * TICK
    /\ now' = now + TICK
    /\ UNCHANGED <<monitorVars, classifierVars, executorVars, approvalVars, logVars,
                   cycleVars, next_id, pc, trace, ncalls>>

(* ------------------------------ orchestrator -------------------------- *)
\* lst[-n:]
LastN(lst, n) == IF Len(lst) > n THEN SubSeq(lst, Len(lst) - n + 1, Len(lst)) ELSE lst

ResetCycle ==
    /\ task' = NoTask
    /\ plan' = NoPlan
    /\ pre_state' = <<>>
    /\ result' = NoResult
    /\ request_id' = 0
    /\ wait_start' = 0

Note(tr, n) == [tr EXCEPT !.notes = Append(@, n)]

\* Dequeue of a loop that does not await _process_task: the next report is
\* taken up while the cycle of the previous one sits in its approval wait
Dequeue_Overlap ==
    /\ pc \in {"idle", "wait"}
    /\ queue # <<>>
    /\ task' = Head(queue)
    /\ queue' = Tail(queue)
    /\ pc' = "process"
    /\ UNCHANGED <<npushed, previous_states, classifierVars, executorVars, approvalVars,
                   logVars, plan, pre_state, result, request_id, wait_start, now, next_id,
                   trace, ncalls>>

\* Dequeue that pops the newest report (rpop)
Dequeue_Last ==
    /\ pc = "idle"
    /\ queue # <<>>
    /\ task' = queue[Len(queue)]
    /\ queue' = SubSeq(queue, 1, Len(queue) - 1)
    /\ pc' = "process"
    /\ UNCHANGED <<npushed, previous_states, classifierVars, executorVars, approvalVars,
                   logVars, plan, pre_state, result, request_id, wait_start, now, next_id,
                   trace, ncalls>>

\* RepairAgent.start / _dequeue: lpop of repair:tasks
Dequeue ==
    /\ pc = "idle"
    /\ queue # <<>>
    /\ task' = Head(queue)
    /\ queue' = Tail(queue)
    /\ pc' = "process"
    /\ UNCHANGED <<npushed, previous_states, classifierVars, executorVars, approvalVars,
                   logVars, plan, pre_state, result, request_id, wait_start, now, next_id,
                   trace, ncalls>>

\* the handler _process_task picks for a level
HandlerOf(level) ==
    CASE level = AUTO -> "auto"
      [] level = APPROVE -> "approve"
      [] level = CURSOR -> "cursor"
      [] OTHER -> "post"

\* _process_task up to the dispatch on the level: classify, snapshot
ProcessTask ==
    /\ pc = "process"
    /\ ClassifyEffect(task.name, task.status)
    /\ trace' = [trace EXCEPT !.cls = ClsRec(task.name, task.status)]
    /\ LET p == classify(failure_counts, task.name, task.status).plan IN
       IF p = NoPlan
       THEN /\ pc' = "done"
            /\ UNCHANGED cycleVars
       ELSE /\ plan' = p
            /\ \E sweep \in PreSweeps : pre_state' = sweep
            /\ pc' = HandlerOf(p.level)
            /\ UNCHANGED <<task, result, request_id, wait_start>>
    /\ UNCHANGED <<monitorVars, executorVars, approvalVars, logVars, now, next_id, ncalls>>

\* HandleAuto that calls execute again after a failed result
HandleAuto_Retry ==
    /\ pc = "auto"
    /\ \E o \in OutcomesOf(plan.action) :
          /\ ExecEffect(plan.action, plan.action_details, o)
          /\ result' = execute(action_log, now, plan.action, plan.action_details, o).result
          /\ trace' = Note([trace EXCEPT !.exec = ExecRec(plan.action, plan.action_details, o)],
                           "auto_report")
          /\ pc' = IF execute(action_log, now, plan.action, plan.action_details, o).result.success
                   THEN "post" ELSE "auto"
    /\ UNCHANGED <<monitorVars, classifierVars, approvalVars, logVars, task, plan,
                   pre_state, request_id, wait_start, now, next_id, ncalls>>

\* _handle_auto: execute, then report
HandleAuto ==
    /\ pc = "auto"
    /\ \E o \in OutcomesOf(plan.action) :
          /\ ExecEffect(plan.action, plan.action_details, o)
          /\ result' = execute(action_log, now, plan.action, plan.action_details, o).result
          /\ trace' = Note([trace EXCEPT !.exec = ExecRec(plan.action, plan.action_details, o)],
                           "auto_report")
    /\ pc' = "post"
    /\ UNCHANGED <<monitorVars, classifierVars, approvalVars, logVars, task, plan,
                   pre_state, request_id, wait_start, now, next_id, ncalls>>

\* _handle_approve / _handle_cursor up to the wait: fresh id, keyboard sent
SendApprovalRequest ==
    /\ pc \in {"approve", "cursor"}
    /\ request_id' = next_id
    /\ next_id' = next_id + 1
    /\ wait_start' = now
    /\ trace' = Note(trace, "approval_request")
    /\ pc' = "wait"
    /\ UNCHANGED <<monitorVars, classifierVars, executorVars, approvalVars, logVars,
                   task, plan, pre_state, result, now, ncalls>>

\* the message of the result dict when the wait returned False
RefusedMessage(level) ==
    IF level = CURSOR THEN "admin_rejected_cursor_repair" ELSE "admin_rejected_or_timeout"

\* Granted that takes any decision for an approval
Granted_Any(value) == TRUE

\* what _wait_approval returns for the value it read
Granted(value) == value = "approved"

Returned(b) == IF b THEN "true" ELSE "false"

\* AfterWait with the `if not approved: return` of the handlers left out
AfterWait_NoGate(approved, level) ==
    IF level = CURSOR THEN "launch" ELSE "exec_approved"

\* where the handler goes when the wait returned
AfterWait(approved, level) ==
    IF ~approved THEN "post"
    ELSE IF level = CURSOR THEN "launch" ELSE "exec_approved"

\* PollApproval that clears the counter of the check on a rejection
PollApproval_ResetOnReject ==
    /\ pc = "wait"
    /\ now - wait_start < APPROVAL_TIMEOUT
    /\ ApprovalKey(request_id) \in DOMAIN approvals
    /\ LET value == approvals[ApprovalKey(request_id)] IN
       /\ approvals' = [k \in (DOMAIN approvals) \ {ApprovalKey(request_id)} |-> approvals[k]]
       /\ trace' = [trace EXCEPT !.wait_result = value,
                                 !.wait_returned = Returned(Granted(value))]
       /\ result' = IF Granted(value) THEN result ELSE Res(FALSE, RefusedMessage(plan.level))
       /\ pc' = AfterWait(Granted(value), plan.level)
       /\ IF Granted(value) THEN UNCHANGED classifierVars ELSE ResetEffect(task.name)
    /\ UNCHANGED <<monitorVars, executorVars, logVars, ncallbacks,
                   task, plan, pre_state, request_id, wait_start, now, next_id, ncalls>>

\* _wait_approval: a poll that finds the key; the key is deleted
PollApproval ==
    /\ pc = "wait"
    /\ now - wait_start < APPROVAL_TIMEOUT
    /\ ApprovalKey(request_id) \in DOMAIN approvals
    /\ LET value == approvals[ApprovalKey(request_id)] IN
       /\ approvals' = [k \in (DOMAIN approvals) \ {ApprovalKey(request_id)} |-> approvals[k]]
       /\ trace' = [trace EXCEPT !.wait_result = value,
                                 !.wait_returned = Returned(Granted(value))]
       /\ result' = IF Granted(value) THEN result ELSE Res(FALSE, RefusedMessage(plan.level))
       /\ pc' = AfterWait(Granted(value), plan.level)
    /\ UNCHANGED <<monitorVars, classifierVars, executorVars, logVars, ncallbacks,
                   task, plan, pre_state, request_id, wait_start, now, next_id, ncalls>>

\* WaitTimeout without the _notify call after the loop
WaitTimeout_Silent ==
    /\ pc = "wait"
    /\ ~(now - wait_start < APPROVAL_TIMEOUT)
    /\ trace' = [trace EXCEPT !.wait_result = "timeout", !.wait_returned = "false"]
    /\ result' = Res(FALSE, RefusedMessage(plan.level))
    /\ pc' = AfterWait(FALSE, plan.level)
    /\ UNCHANGED <<monitorVars, classifierVars, executorVars, approvalVars, logVars,
                   task, plan, pre_state, request_id, wait_start, now, next_id, ncalls>>

\* _wait_approval: the loop ends without a decision; timeout notification
WaitTimeout ==
    /\ pc = "wait"
    /\ ~(now - wait_start < APPROVAL_TIMEOUT)
    /\ trace' = Note([trace EXCEPT !.wait_result = "timeout", !.wait_returned = "false"],
                     "approval_timeout")
    /\ result' = Res(FALSE, RefusedMessage(plan.level))
    /\ pc' = AfterWait(FALSE, plan.level)
    /\ UNCHANGED <<monitorVars, classifierVars, executorVars, approvalVars, logVars,
                   task, plan, pre_state, request_id, wait_start, now, next_id, ncalls>>

\* _wait_approval: r.get raises; the exception leaves _process_task and is
\* caught by the loop of start, the cycle ends there
WaitFault ==
    /\ pc = "wait"
    /\ now - wait_start < APPROVAL_TIMEOUT
    /\ trace' = [trace EXCEPT !.wait_result = "fault"]
    /\ pc' = "done"
    /\ UNCHANGED <<monitorVars, classifierVars, executorVars, approvalVars, logVars,
                   cycleVars, now, next_id, ncalls>>

\* _handle_approve after a granted approval: execute
ExecuteApproved ==
    /\ pc = "exec_approved"
    /\ \E o \in OutcomesOf(plan.action) :
          /\ ExecEffect(plan.action, plan.action_details, o)
          /\ result' = execute(action_log, now, plan.action, plan.action_details, o).result
          /\ trace' = [trace EXCEPT !.exec = ExecRec(plan.action, plan.action_details, o)]
    /\ pc' = "post"
    /\ UNCHANGED <<monitorVars, classifierVars, approvalVars, logVars, task, plan,
                   pre_state, request_id, wait_start, now, next_id, ncalls>>

\* _handle_cursor after a granted approval: cursor.launch_repair
LaunchRepair ==
    /\ pc = "launch"
    /\ \E ok \in BOOLEAN :
          IF ok
          THEN /\ trace' = Note([trace EXCEPT !.launched = TRUE], "cursor_launched")
               /\ pc' = "cursor_wait"
               /\ UNCHANGED result
          ELSE /\ trace' = [trace EXCEPT !.launched = TRUE]
               /\ result' = Res(FALSE, "failed_to_launch_cursor")
               /\ pc' = "post"
    /\ UNCHANGED <<monitorVars, classifierVars, executorVars, approvalVars, logVars,
                   task, plan, pre_state, request_id, wait_start, now, next_id, ncalls>>

\* _handle_cursor: cursor.wait_for_completion and the result built from it
WaitForCompletion ==
    /\ pc = "cursor_wait"
    /\ \E final \in {"completed", "failed"} :
          IF final = "completed"
          THEN /\ result' = Res(TRUE, "cursor_agent_completed")
               /\ trace' = Note(trace, "cursor_completed")
          ELSE /\ result' = Res(FALSE, "cursor_agent_failed")
               /\ trace' = Note(trace, "cursor_failed")
    /\ pc' = "post"
    /\ UNCHANGED <<monitorVars, classifierVars, executorVars, approvalVars, logVars,
                   task, plan, pre_state, request_id, wait_start, now, next_id, ncalls>>

\* NeedsVerify that exempts notify_admin only
NeedsVerify_LogAndWait(res, action) == res.success /\ action # "notify_admin"

\* NeedsVerify without the test of result.success
NeedsVerify_Always(res, action) == action \notin {"log_and_wait", "notify_admin"}

\* the condition under which _process_task calls verifier.verify
NeedsVerify(res, action) ==
    res.success /\ action \notin {"log_and_wait", "notify_admin"}

\* how _process_task reads the dict verify returned
VerificationKind(v) ==
    IF v.success THEN "success"
    ELSE IF v.new_problems # {} THEN "new_problems" ELSE "persisted"

\* the RepairRecord of the cycle
RepairRecord == [check |-> task.name, status |-> task.status, level |-> plan.level,
                 action |-> plan.action, result |-> result]

\* rpush then ltrim(-500, -1) on repair:log, as the length of the list
Rpush(len) == IF len + 1 > LOG_RING THEN LOG_RING ELSE len + 1

\* what the end of _process_task adds to the trace: the record is appended
\* to _repair_history and saved by _save_log, which swallows a Redis fault
Logged(tr, saved) == [tr EXCEPT !.records = @ + 1, !.saved = IF saved THEN @ + 1 ELSE @]

\* _process_task after the handler: verification, notifications, log
FinishTask ==
    /\ pc = "post"
    /\ \E saved \in BOOLEAN :
          /\ repair_log' = IF saved THEN Rpush(repair_log) ELSE repair_log
          /\ IF NeedsVerify(result, plan.action)
             THEN \E post \in MainSweeps :
                     LET kind == VerificationKind(verify(task.name, pre_state, post)) IN
                     /\ trace' = Logged(Note([trace EXCEPT !.verify_called = TRUE,
                                                           !.verification = kind], kind), saved)
                     /\ IF kind = "success"
                        THEN ResetEffect(task.name)
                        ELSE UNCHANGED classifierVars
             ELSE /\ trace' = Logged(IF ~result.success THEN Note(trace, "repair_failed")
                                     ELSE trace, saved)
                  /\ UNCHANGED classifierVars
    /\ repair_history' = LastN(Append(repair_history, RepairRecord), HistoryKept)
    /\ pc' = "done"
    /\ UNCHANGED <<monitorVars, executorVars, approvalVars, cycleVars,
                   now, next_id, ncalls>>

\* LoopBack of a loop without its try/except: a cycle that raised ends the loop
LoopBack_Crash ==
    /\ pc = "done"
    /\ trace.wait_result # "fault"
    /\ pc' = "idle"
    /\ ResetCycle
    /\ trace' = NoTrace
    /\ UNCHANGED <<monitorVars, classifierVars, executorVars, approvalVars, logVars,
                   now, next_id, ncalls>>

\* RepairAgent.start: _process_task has returned or raised, next iteration
LoopBack ==
    /\ pc = "done"
    /\ pc' = "idle"
    /\ ResetCycle
    /\ trace' = NoTrace
    /\ UNCHANGED <<monitorVars, classifierVars, executorVars, approvalVars, logVars,
                   now, next_id, ncalls>>

Next ==
    \/ \E report \in Reports : PushRepairTask(report)
    \/ \E id \in 1..MaxReports, approved \in BOOLEAN : HandleRepairApproval(id, approved)
    \/ Tick(MaxTicks)
    \/ Dequeue
    \/ ProcessTask
    \/ HandleAuto
    \/ SendApprovalRequest
    \/ PollApproval
    \/ WaitTimeout
    \/ WaitFault
    \/ ExecuteApproved
    \/ LaunchRepair
    \/ WaitForCompletion
    \/ FinishTask
    \/ LoopBack

Spec == Init /\ [][Next]_vars

(* ----------------- the executor alone, under direct calls -------------- *)
ExecActions == {"log_and_wait", "restart_systemd", "restart_container", "cleanup_disk",
                "notify_admin"}

\* the details of the direct calls: those the classifier builds for a name
\* of the maps and for a name that only prefix-matches, and a foreign target
DetailsOf(action) ==
    {build_action_details(<<>>, n, action) : n \in {SvcGateway, NmRedis, NmRedisExtra}}
    \cup (IF action = "restart_systemd" THEN {[NoDetails EXCEPT !.service_name = "nginx"]}
          ELSE IF action = "restart_container" THEN {[NoDetails EXCEPT !.container_name = "nginx"]}
          ELSE {})

\* RepairExecutor.execute called directly
ExecCall ==
    /\ ncalls < MaxCalls
    /\ \E action \in ExecActions : \E details \in DetailsOf(action) :
       \E o \in OutcomesOf(action) :
          /\ ExecEffect(action, details, o)
          /\ trace' = [NoTrace EXCEPT !.exec = ExecRecWithUser(action, details, o)]
    /\ ncalls' = ncalls + 1
    /\ UNCHANGED <<monitorVars, classifierVars, approvalVars, logVars, cycleVars,
                   now, next_id, pc>>

ExecNext ==
    \/ ExecCall
    \/ Tick(MaxExecTicks)

ExecSpec == Init /\ [][ExecNext]_vars

(* ---------------- the classifier alone, under direct calls ------------- *)
ClsNames == {SvcGateway, NmCPU, NmRedisExtra, NmAgent, NmDispatcher}
ClsStatuses == {"ok", "info", "warning", "critical"}

\* RepairClassifier.classify called directly
ClassifyCall ==
    \E name \in ClsNames, status \in ClsStatuses :
       /\ FailingStatus(status) => GetCount(streak, name) < MaxCount
       /\ ClassifyEffect(name, status)
       /\ trace' = [NoTrace EXCEPT !.cls = ClsRecWithHistory(name, status)]
       /\ UNCHANGED <<monitorVars, executorVars, approvalVars, logVars, cycleVars,
                      now, next_id, pc, ncalls>>

\* RepairClassifier.reset_failure_count called directly
ResetCall ==
    \E name \in ClsNames :
       /\ name \in DOMAIN streak
       /\ ResetEffect(name)
       /\ trace' = [NoTrace EXCEPT !.cls.escalated = trace.cls.escalated]
       /\ UNCHANGED <<monitorVars, executorVars, approvalVars, logVars, cycleVars,
                      now, next_id, pc, ncalls>>

ClsNext ==
    \/ ClassifyCall
    \/ ResetCall

ClassifierSpec == Init /\ [][ClsNext]_vars

(* ----------------- the verifier alone, under a direct call ------------- *)
Check(name, status) == [name |-> name, status |-> status]

\* What run_all returns, cut down to three of its parts, in its order:
\* check_docker_containers gives the container's check or, when the Docker
\* API fails, a "Docker" warning in its place; check_systemd_services always
\* gives the gateway's check; check_dispatcher_agents gives the agent's check
\* (ok or info), nothing for an empty registry, or a "Dispatcher" critical.
DockerPart == {<<Check(NmDocker, "warning")>>}
              \cup {<<Check(DkrRedis, st)>> : st \in {"ok", "warning", "critical"}}
ServicePart == {<<Check(SvcGateway, st)>> : st \in {"ok", "critical"}}
AgentPart == {<<>>, <<Check(NmDispatcher, "critical")>>}
             \cup {<<Check(NmAgent, st)>> : st \in {"ok", "info"}}
RunAll == {d \o sv \o ag : d \in DockerPart, sv \in ServicePart, ag \in AgentPart}

\* the names verify is called for
VerNames == {DkrRedis, SvcGateway, NmAgent}

\* the arguments of one verify call: a name, a snapshot of an earlier sweep
\* or none, and the sweep verify runs itself
VerInit ==
    /\ InitState
    /\ \E name \in VerNames, pre \in RunAll \cup {<<>>}, post \in RunAll :
          trace = [NoTrace EXCEPT !.ver = [NoVerify EXCEPT !.name = name, !.pre = pre,
                                                          !.post = post]]

\* RepairVerifier.verify called directly
VerifyCall ==
    /\ trace.ver.name # <<>>
    /\ ~trace.ver.called
    /\ trace' = [trace EXCEPT !.ver.called = TRUE,
                              !.ver.out = verify(trace.ver.name, trace.ver.pre, trace.ver.post)]
    /\ UNCHANGED <<monitorVars, classifierVars, executorVars, approvalVars, logVars,
                   cycleVars, now, next_id, pc, ncalls>>

VerNext == VerifyCall

VerifierSpec == VerInit /\ [][VerNext]_vars

(* -------------- the rollback operations, under a direct call ----------- *)
\* the target names of at most n tokens
RECURSIVE TargetsUpTo(_)
TargetsUpTo(n) ==
    IF n = 0 THEN {<<>>}
    ELSE TargetsUpTo(n - 1)
         \cup {Append(t, k) : t \in {u \in TargetsUpTo(n - 1) : Len(u) = n - 1}, k \in Tokens}

\* the argument of one rollback call
RbInit ==
    /\ InitState
    /\ \E target \in TargetsUpTo(MaxTokens) :
          trace = [NoTrace EXCEPT !.rb = [NoRollback EXCEPT !.target = target]]

\* rollback_systemd or rollback_container called directly
RollbackCall ==
    /\ trace.rb.kind = ""
    /\ \E kind \in {"systemd", "container"}, o \in {"ok", "fail", "raise"} :
          LET r == IF kind = "systemd" THEN rollback_systemd(trace.rb.target, o)
                   ELSE rollback_container(trace.rb.target, o)
          IN trace' = [trace EXCEPT !.rb.kind = kind, !.rb.cmds = r.cmds,
                                    !.rb.success = r.success]
    /\ UNCHANGED <<monitorVars, classifierVars, executorVars, approvalVars, logVars,
                   cycleVars, now, next_id, pc, ncalls>>

RbNext == RollbackCall

RollbackSpec == RbInit /\ [][RbNext]_vars

(* --------------- the code-fix client, under direct calls --------------- *)
\* CursorEngine.__init__: the api_key of the settings, set or empty
CurInit ==
    /\ InitState
    /\ \E key \in {"", "key"} : trace = [NoTrace EXCEPT !.cur.api_key = key]

\* the record of a call that is one request at most
CurCall(method, r) ==
    [trace EXCEPT !.cur = [@ EXCEPT !.call = method, !.returned = TRUE, !.result = r.result,
                                    !.net = r.net, !.polls = 0, !.seen = "", !.elapsed = 0]]

\* launch_repair called directly
LaunchCall ==
    /\ pc = "idle"
    /\ \E resp \in Answers(trace.cur.api_key) :
          trace' = CurCall("launch_repair", launch_repair(trace.cur.api_key, resp))
    /\ UNCHANGED <<monitorVars, classifierVars, executorVars, approvalVars, logVars,
                   cycleVars, now, next_id, pc, ncalls>>

\* get_agent_status called directly
StatusCall ==
    /\ pc = "idle"
    /\ \E resp \in Answers(trace.cur.api_key) :
          trace' = CurCall("get_agent_status", get_agent_status(trace.cur.api_key, resp))
    /\ UNCHANGED <<monitorVars, classifierVars, executorVars, approvalVars, logVars,
                   cycleVars, now, next_id, pc, ncalls>>

\* send_followup called directly
FollowupCall ==
    /\ pc = "idle"
    /\ \E resp \in Answers(trace.cur.api_key) :
          trace' = CurCall("send_followup", send_followup(trace.cur.api_key, resp))
    /\ UNCHANGED <<monitorVars, classifierVars, executorVars, approvalVars, logVars,
                   cycleVars, now, next_id, pc, ncalls>>

\* wait_for_completion is called: start = loop.time()
WaitStart ==
    /\ pc = "idle"
    /\ ncalls < MaxWaits
    /\ ncalls' = ncalls + 1
    /\ wait_start' = now
    /\ trace' = [trace EXCEPT !.cur = [@ EXCEPT !.call = "wait_for_completion",
                                                !.returned = FALSE, !.result = NoCurRes,
                                                !.net = {}, !.polls = 0, !.seen = "",
                                                !.elapsed = 0]]
    /\ pc' = "cursor_poll"
    /\ UNCHANGED <<monitorVars, classifierVars, executorVars, approvalVars, logVars,
                   task, plan, pre_state, result, request_id, now, next_id>>

\* One iteration of the loop of wait_for_completion. A request is taken to
\* be answered at once: the time it takes only brings the timeout nearer.
WaitIteration ==
    /\ pc = "cursor_poll"
    /\ \E resp \in Answers(trace.cur.api_key) :
          LET it == wait_iteration(trace.cur.api_key, now - wait_start, CURSOR_TIMEOUT, resp) IN
          /\ trace' = [trace EXCEPT !.cur = [@ EXCEPT
                           !.returned = it.returned, !.result = it.result,
                           !.net = @ \cup it.net,
                           !.polls = IF it.polled THEN @ + 1 ELSE @,
                           !.seen = IF it.polled THEN it.seen ELSE @,
                           !.elapsed = now - wait_start]]
          /\ now' = now + it.sleep
          /\ pc' = IF it.returned THEN "idle" ELSE "cursor_poll"
    /\ UNCHANGED <<monitorVars, classifierVars, executorVars, approvalVars, logVars,
                   cycleVars, next_id, ncalls>>

CurNext ==
    \/ LaunchCall
    \/ StatusCall
    \/ FollowupCall
    \/ WaitStart
    \/ WaitIteration

CursorSpec == CurInit /\ [][CurNext]_vars

\* asyncio ends the sleep of the coroutine and the HTTP client gives up on a
\* request after its own timeout, so an iteration of the loop always ends
CursorLiveSpec == CurInit /\ [][CurNext]_vars /\ WF_vars(WaitIteration)

(* --------------------- the monitor and the agent ----------------------- *)
\* self._previous_states.get(name)
PrevStatus(prev, name) == IF name \in DOMAIN prev THEN prev[name] ELSE "none"

\* the checks of a sweep that _run_cycle pushes: the status differs from the
\* one of the previous cycle and is critical or warning
PushedBy(prev, sweep) ==
    SelectSeq(sweep, LAMBDA c : PrevStatus(prev, c.name) # c.status /\ FailingStatus(c.status))

\* _previous_states after the cycle
Observed(prev, sweep) ==
    LET names == {sweep[i].name : i \in 1..Len(sweep)} IN
    [n \in (DOMAIN prev) \cup names |->
        IF n \in names THEN (CHOOSE c \in Range(sweep) : c.name = n).status ELSE prev[n]]

\* MonitoringAgent._run_cycle, as far as the repair queue goes. The monitor
\* is another process; its cycle is placed between two cycles of the agent
\* or right at the end of one.
RunCycle ==
    /\ pc \in {"idle", "done"}
    /\ ncalls < MaxCycles
    /\ \E sweep \in MainSweeps :
          LET pushed == PushedBy(previous_states, sweep) IN
          /\ queue' = queue \o pushed
          /\ npushed' = npushed + Len(pushed)
          /\ previous_states' = Observed(previous_states, sweep)
          /\ trace' = [trace EXCEPT !.mon = [sweep |-> sweep,
                                             pushed |-> {pushed[i].name : i \in 1..Len(pushed)},
                                             after |-> trace.verification]]
    /\ ncalls' = ncalls + 1
    /\ UNCHANGED <<classifierVars, executorVars, approvalVars, logVars, cycleVars,
                   now, next_id, pc>>

\* Within MaxCycles cycles a check changes to a failing status fewer than
\* four times, so no plan is escalated and every plan is AUTO.
MonitorNext ==
    \/ RunCycle
    \/ Dequeue
    \/ ProcessTask
    \/ HandleAuto
    \/ FinishTask
    \/ LoopBack

MonitorSpec == Init /\ [][MonitorNext]_vars

(* ------------ monitoring cycles that interleave at their awaits -------- *)
\* the sweeps of these cycles: the one check of the gateway service
CheckSweeps == {<<[name |-> SvcGateway, status |-> s]>> : s \in {"ok", "warning", "critical"}}

\* _run_cycle of coroutine c from the return of run_all to its next await:
\* the previous status is read and compared. For a change to a failing
\* status the coroutine goes to await the alert and the push; otherwise it
\* records the status, if changed, and the cycle is over.
RunCycleHead(c) ==
    /\ trace.chk.co[c].at = "idle"
    /\ ncalls < MaxCycles
    /\ ncalls' = ncalls + 1
    /\ \E sweep \in CheckSweeps :
          IF PushedBy(previous_states, sweep) # <<>>
          THEN /\ trace' = [trace EXCEPT !.chk.co[c] = [at |-> "pushing", sweep |-> sweep],
                                         !.chk.seen = Append(@, sweep[1].status)]
               /\ UNCHANGED previous_states
          ELSE /\ trace' = [trace EXCEPT !.chk.seen = Append(@, sweep[1].status)]
               /\ previous_states' = Observed(previous_states, sweep)
    /\ UNCHANGED <<queue, npushed, classifierVars, executorVars, approvalVars, logVars,
                   cycleVars, now, next_id, pc>>

\* _run_cycle of coroutine c after the await: the report is on the queue
\* and the status is recorded
RunCyclePush(c) ==
    /\ trace.chk.co[c].at = "pushing"
    /\ queue' = queue \o trace.chk.co[c].sweep
    /\ npushed' = npushed + 1
    /\ previous_states' = Observed(previous_states, trace.chk.co[c].sweep)
    /\ trace' = [trace EXCEPT !.chk.co[c] = [at |-> "idle", sweep |-> <<>>]]
    /\ UNCHANGED <<classifierVars, executorVars, approvalVars, logVars,
                   cycleVars, now, next_id, pc, ncalls>>

CheckNext ==
    \/ \E c \in Coroutines : RunCycleHead(c)
    \/ \E c \in Coroutines : RunCyclePush(c)

CheckSpec == Init /\ [][CheckNext]_vars

(* ------------- the agent on reports of the resource checks ------------- *)
\* the failing reports of check_cpu and check_memory
ResourceReports == {[name |-> NmCPU, status |-> "warning"],
                    [name |-> NmCPU, status |-> "critical"],
                    [name |-> NmRAM, status |-> "warning"]}

\* The cycles of the agent for these reports, up to the approval request of
\* an escalated plan.
ResourceNext ==
    \/ \E report \in ResourceReports : PushRepairTask(report)
    \/ Dequeue
    \/ ProcessTask
    \/ HandleAuto
    \/ SendApprovalRequest
    \/ FinishTask
    \/ LoopBack

ResourceSpec == Init /\ [][ResourceNext]_vars

(* ------------- the agent under fair scheduling, for progress ----------- *)
\* reports pushed while the progress of the loop is looked at
LivePush(report) ==
    /\ npushed < MaxLiveReports
    /\ PushRepairTask(report)

\* the clock of a pending _wait_approval: time.time() passes the timeout
WaitTick ==
    /\ pc = "wait"
    /\ now - wait_start < APPROVAL_TIMEOUT
    /\ now' = now + TICK
    /\ UNCHANGED <<monitorVars, classifierVars, executorVars, approvalVars, logVars,
                   cycleVars, next_id, pc, trace, ncalls>>

\* the steps of the coroutine of RepairAgent.start that the event loop runs
\* whenever they are ready; a fault is not one of them. With at most
\* MaxLiveReports reports no check reaches the escalation threshold, so the
\* code-fix steps are never ready.
AgentStep ==
    \/ Dequeue
    \/ ProcessTask
    \/ HandleAuto
    \/ SendApprovalRequest
    \/ PollApproval
    \/ WaitTimeout
    \/ ExecuteApproved
    \/ FinishTask
    \/ LoopBack

LiveNext ==
    \/ \E report \in Reports : LivePush(report)
    \/ \E id \in 1..MaxReports, approved \in BOOLEAN : HandleRepairApproval(id, approved)
    \/ WaitTick
    \/ WaitFault
    \/ AgentStep

\* asyncio runs a ready coroutine, and time passes
LiveSpec == Init /\ [][LiveNext]_vars /\ WF_vars(AgentStep) /\ WF_vars(WaitTick)

(* --------------- approval cycles under callbacks of any kind ----------- *)
\* the reports whose plan needs an approval from the first report on
ApprovalReports == {r \in Reports : FirstMatch(r.name) = 0}

CallbackNext ==
    \/ \E report \in ApprovalReports : LivePush(report)
    \/ Dequeue
    \/ ProcessTask
    \/ SendApprovalRequest
    \/ \E user \in Users, data \in CallbackData : HandleRepairCallback(user, data)
    \/ PollApproval
    \/ WaitTick
    \/ WaitTimeout
    \/ ExecuteApproved
    \/ FinishTask
    \/ LoopBack

CallbackSpec == Init /\ [][CallbackNext]_vars

(* ---------------------------- ApprovalManager -------------------------- *)
\* dict[key] = value
Put(f, k, v) == [x \in DOMAIN f \cup {k} |-> IF x = k THEN v ELSE f[x]]

\* a pop that leaves the entry in the table
Pop_Keep(f, k) == f

\* dict.pop(key, None)
Pop(f, k) == [x \in DOMAIN f \ {k} |-> f[x]]

\* the `finally` of request_approval: the call for `id` ends as `how`
Leave(am, id, how) ==
    [am EXCEPT !.pending = Pop(am.pending, id),
               !.calls = [x \in DOMAIN am.calls \ {id} |-> am.calls[x]],
               !.returned = Put(am.returned, id, how)]

\* handle_callback: the table it leaves
handle_callback(pending, id, approved) ==
    IF id \in DOMAIN pending /\ pending[id] = "waiting"
    THEN [pending EXCEPT ![id] = IF approved THEN "approved" ELSE "rejected"]
    ELSE pending

ManagerStep(am) ==
    /\ trace' = [trace EXCEPT !.am = am]
    /\ UNCHANGED <<monitorVars, classifierVars, executorVars, approvalVars, logVars,
                   cycleVars, now, next_id, pc, ncalls>>

\* request_approval up to its first await: a fresh id, the future created
\* and stored in _pending, then send_message is awaited
RequestApproval ==
    /\ trace.am.nids < MaxRequests
    /\ LET id == trace.am.nids + 1 IN
       ManagerStep([trace.am EXCEPT !.nids = id,
                                    !.pending = Put(@, id, "waiting"),
                                    !.calls = Put(@, id, "send")])

\* send_message returns: the call awaits wait_for(future)
SendReturns(id) ==
    /\ id \in DOMAIN trace.am.calls /\ trace.am.calls[id] = "send"
    /\ ManagerStep([trace.am EXCEPT !.calls[id] = "wait"])

\* send_message raises: the exception leaves request_approval through finally
SendRaises(id) ==
    /\ id \in DOMAIN trace.am.calls /\ trace.am.calls[id] = "send"
    /\ ManagerStep(Leave(trace.am, id, "raised"))

\* handle_callback(request_id, approved), for any id
HandleCallback(id, approved) ==
    /\ trace.am.ncb < MaxCallbacks
    /\ ManagerStep([trace.am EXCEPT
           !.ncb = @ + 1,
           !.pending = handle_callback(@, id, approved),
           !.last = [id |-> id,
                     took |-> id \in DOMAIN trace.am.pending /\ trace.am.pending[id] = "waiting"]])

\* wait_for returns the result of the future: return approved
WaitReturns(id) ==
    /\ id \in DOMAIN trace.am.calls /\ trace.am.calls[id] = "wait"
    /\ trace.am.pending[id] \in {"approved", "rejected"}
    /\ ManagerStep(Leave(trace.am, id,
                         IF trace.am.pending[id] = "approved" THEN "true" ELSE "false"))

\* wait_for times out: the future is cancelled, asyncio.TimeoutError is
\* caught and the second send_message is awaited
WaitTimesOut(id) ==
    /\ id \in DOMAIN trace.am.calls /\ trace.am.calls[id] = "wait"
    /\ trace.am.pending[id] = "waiting"
    /\ ManagerStep([trace.am EXCEPT !.calls[id] = "timeout_send",
                                    !.pending[id] = "cancelled"])

\* the send_message of the timeout returns: return False
TimeoutSendReturns(id) ==
    /\ id \in DOMAIN trace.am.calls /\ trace.am.calls[id] = "timeout_send"
    /\ ManagerStep(Leave(trace.am, id, "timeout"))

\* the send_message of the timeout raises
TimeoutSendRaises(id) ==
    /\ id \in DOMAIN trace.am.calls /\ trace.am.calls[id] = "timeout_send"
    /\ ManagerStep(Leave(trace.am, id, "raised"))

ApprovalNext ==
    \/ RequestApproval
    \/ \E id \in 1..MaxRequests : SendReturns(id)
    \/ \E id \in 1..MaxRequests : SendRaises(id)
    \/ \E id \in 1..MaxRequests, approved \in BOOLEAN : HandleCallback(id, approved)
    \/ \E id \in 1..MaxRequests : WaitReturns(id)
    \/ \E id \in 1..MaxRequests : WaitTimesOut(id)
    \/ \E id \in 1..MaxRequests : TimeoutSendReturns(id)
    \/ \E id \in 1..MaxRequests : TimeoutSendRaises(id)

ApprovalSpec == Init /\ [][ApprovalNext]_vars

(* -------------------------------- claims ------------------------------ *)
ExecCalled == trace.exec.action # ""

\* C1: for a plan of level APPROVE or CURSOR, Executor.execute is called and
\* a code fix is launched only after the wait of the cycle has read
\* "approved" for the request id of the cycle; after a rejection or a
\* timeout nothing is executed and nothing launched; an AUTO plan sends no
\* approval request.
C1_ApprovalBeforeMutation ==
    /\ (plan.level \in {APPROVE, CURSOR}
        /\ (ExecCalled \/ trace.launched \/ pc \in {"exec_approved", "launch", "cursor_wait"}))
       => (/\ request_id # 0
           /\ trace.wait_result = "approved"
           /\ "approved" \in Range(trace.decisions))
    /\ trace.wait_result \in {"rejected", "timeout"}
       => (~ExecCalled /\ ~trace.launched /\ trace.exec.cmds = <<>>)
    /\ plan.level = AUTO
       => (request_id = 0 /\ "approval_request" \notin Range(trace.notes))

\* a code fix launched for a CURSOR plan after a granted approval
C1_Witness ==
    /\ plan.level = CURSOR
    /\ trace.launched
    /\ trace.wait_result = "approved"

\* C2: every restart command execute issues has a target of the static
\* allow-list of its kind, and a restart call that passes the rate check with
\* a target outside the allow-list returns a failure without any command.
C2_RestartOnlyAllowed ==
    /\ \A i \in 1..Len(trace.exec.cmds) :
          LET c == trace.exec.cmds[i] IN
          /\ c.cmd \in {"systemctl_user_restart", "sudo_systemctl_restart"}
             => c.target \in ALLOWED_SERVICES
          /\ c.cmd = "docker_restart" => c.target \in ALLOWED_CONTAINERS
    /\ (trace.exec.action = "restart_systemd" /\ ~trace.exec.limited
        /\ trace.exec.details.service_name \notin ALLOWED_SERVICES)
       => (~trace.exec.result.success /\ trace.exec.cmds = <<>>)
    /\ (trace.exec.action = "restart_container" /\ ~trace.exec.limited
        /\ trace.exec.details.container_name \notin ALLOWED_CONTAINERS)
       => (~trace.exec.result.success /\ trace.exec.cmds = <<>>)

\* a restart_systemd call for a foreign service was refused by the allow-list
C2_Witness ==
    /\ trace.exec.action = "restart_systemd"
    /\ trace.exec.details.service_name = "nginx"
    /\ trace.exec.result.message = "service_not_allowed"

\* C3: an execute call for an action other than log_and_wait, made when
\* three handlers were already invoked by execute within the last hour, is
\* refused as rate limited and invokes no handler.
C3_FourthRefused ==
    (ExecCalled /\ trace.exec.action # "log_and_wait"
     /\ trace.exec.prior >= MAX_ACTIONS_PER_HOUR)
    => (trace.exec.limited /\ ~trace.exec.handler)

\* C4: for a check matching an AUTO rule, the n-th failing classify call
\* since its counter was cleared returns level AUTO with the action of the
\* rule for n <= 3, and level CURSOR with another action for n = 4; the same
\* for every pattern of the rule table as the name.
C4_EscalationAtFourth ==
    /\ LET c == trace.cls
           i == FirstMatch(c.name)
           n == GetCount(streak, c.name)
       IN (FailingStatus(c.status) /\ i # 0 /\ REPAIR_RULES[i].level = AUTO)
          => /\ n <= ESCALATION_THRESHOLD
                => (c.plan.level = AUTO /\ c.plan.action = REPAIR_RULES[i].action)
             /\ n = ESCALATION_THRESHOLD + 1
                => (c.plan.level = CURSOR /\ c.plan.action # REPAIR_RULES[i].action)
    /\ \A i \in 1..Len(REPAIR_RULES) : \A k \in 0..ESCALATION_THRESHOLD :
          LET name == REPAIR_RULES[i].pattern
              fc == IF k = 0 THEN <<>> ELSE SetCount(<<>>, name, k)
              p == classify(fc, name, "critical").plan
              rule == REPAIR_RULES[FirstMatch(name)]
          IN IF k + 1 <= ESCALATION_THRESHOLD
             THEN p.level = AUTO /\ p.action = rule.action
             ELSE p.level = CURSOR /\ p.action # rule.action

\* the fourth failing call in a row of a check that only prefix-matches
C4_Witness ==
    /\ trace.cls.name = NmRedisExtra
    /\ GetCount(streak, NmRedisExtra) = ESCALATION_THRESHOLD + 1
    /\ trace.cls.plan.level = CURSOR

\* C5: a classify call with status ok returns no plan and leaves the check
\* without a FailureCounter entry, whatever the name and the counter before.
C5_OkClears ==
    trace.cls.status = "ok"
    => (trace.cls.plan = NoPlan /\ trace.cls.name \notin DOMAIN failure_counts)

\* an ok report for a check whose counter stood at two or more
C5_Witness ==
    /\ trace.cls.status = "ok"
    /\ trace.cls.before >= 2

\* C6: _wait_approval returns True only if "approved" was recorded for the
\* request id of the cycle, and then within the timeout; with only decisions
\* for other ids, only rejections, or no decision, it returns False.
C6_TrueOnlyIfApproved ==
    /\ trace.wait_returned = "true"
       => (/\ "approved" \in Range(trace.decisions)
           /\ trace.wait_result = "approved"
           /\ now - wait_start < APPROVAL_TIMEOUT)
    /\ (trace.wait_returned # "none" /\ "approved" \notin Range(trace.decisions))
       => trace.wait_returned = "false"

\* a wait that timed out while an approval for another id was on record
C6_Witness ==
    /\ trace.wait_returned = "false"
    /\ trace.wait_result = "timeout"
    /\ \E k \in DOMAIN approvals : k # ApprovalKey(request_id) /\ approvals[k] = "approved"

\* C7: a wait that resolves with a decision resolves with the first
\* decision recorded for its request id.
C7_FirstDecisionWins ==
    (trace.wait_result \in {"approved", "rejected"} /\ trace.decisions # <<>>)
    => trace.wait_result = trace.decisions[1]

\* C8: the record of a cycle whose verification reported "persisted" or
\* "new problems" does not carry result.success = true.
C8_UnverifiedNotSuccess ==
    (pc = "done" /\ trace.records = 1
     /\ trace.verification \in {"persisted", "new_problems"})
    => ~repair_history[Len(repair_history)].result.success

\* C9: a cycle with a CURSOR plan never calls Verifier.verify.
C9_CursorNotVerified ==
    plan.level = CURSOR => ~trace.verify_called

\* C10: a cycle whose approval was rejected or timed out calls neither
\* Verifier.verify nor Executor.execute, launches nothing, and goes from the
\* wait to the end of _process_task, where it logs one record with
\* result.success = false.
C10_RefusedNotVerified ==
    trace.wait_result \in {"rejected", "timeout"}
    => /\ ~trace.verify_called
       /\ ~ExecCalled
       /\ ~trace.launched
       /\ pc \in {"post", "done"}
       /\ pc = "done"
          => (/\ trace.records = 1
              /\ ~repair_history[Len(repair_history)].result.success)

\* a rejected CURSOR plan, logged
C10_Witness ==
    /\ pc = "done"
    /\ plan.level = CURSOR
    /\ trace.wait_result = "rejected"
    /\ trace.records = 1

\* C11: a cycle whose report the classifier gave a plan for ends with exactly
\* one RepairRecord appended, whatever happened in the cycle.
C11_OneRecordPerCycle ==
    (pc = "done" /\ plan # NoPlan) => trace.records = 1

\* C12: a cycle that raised does not stop the loop of start: the loop comes
\* back to its queue poll, every report pushed by then is eventually
\* dequeued, and every dequeued report is handled to the end of its cycle.
C12_LoopContinues ==
    /\ (pc = "done" /\ trace.wait_result = "fault") ~> (pc = "idle")
    /\ \A n \in 1..MaxReports :
          (trace.wait_result = "fault" /\ npushed >= n) ~> (npushed - Len(queue) >= n)
    /\ (pc = "process") ~> (pc = "done")

\* a report is being processed after an earlier cycle asked for an approval
\* and raised: that cycle drew a request id and left no record
C12_Witness ==
    /\ pc = "process"
    /\ next_id > 1
    /\ repair_history = <<>>

\* C13: verify returns success exactly when the original check is resolved
\* and new_problems is empty; new_problems is the set of the checks failing
\* in the post-repair sweep and not failing in the snapshot, empty without a
\* snapshot; a resolved check with a new failing check gives
\* original_resolved true, new_problems non-empty and success false.
C13_VerifyVerdict ==
    LET v == trace.ver
        failing(sw) == {n \in {sw[i].name : i \in 1..Len(sw)} :
                           \E i \in 1..Len(sw) : sw[i].name = n
                                                 /\ sw[i].status \in {"critical", "warning"}}
        expected == IF v.pre = <<>> THEN {} ELSE failing(v.post) \ failing(v.pre)
    IN v.called =>
          /\ v.out.new_problems = expected
          /\ v.out.success <=> (v.out.original_resolved /\ v.out.new_problems = {})
          /\ (v.out.original_resolved /\ v.out.new_problems # {}) => ~v.out.success

\* the check that was failing in the snapshot is fine after the repair and
\* another check, fine in the snapshot, is failing with a warning
C13_Witness ==
    /\ trace.ver.called
    /\ trace.ver.name = SvcGateway
    /\ Check(SvcGateway, "critical") \in Range(trace.ver.pre)
    /\ Check(SvcGateway, "ok") \in Range(trace.ver.post)
    /\ trace.ver.out.original_resolved
    /\ trace.ver.out.new_problems = {DkrRedis}
    /\ Check(DkrRedis, "warning") \in Range(trace.ver.post)
    /\ ~trace.ver.out.success

\* C14: when the original check is absent from the post-repair sweep, verify
\* returns original_resolved false and success false, whatever the snapshot.
C14_AbsentNotResolved ==
    LET v == trace.ver IN
    (v.called /\ \A i \in 1..Len(v.post) : v.post[i].name # v.name)
    => (~v.out.original_resolved /\ ~v.out.success)

\* the container's check was failing in the snapshot and is gone from the
\* sweep, where the Docker API failed
C14_Witness ==
    /\ trace.ver.called
    /\ trace.ver.name = DkrRedis
    /\ Check(DkrRedis, "critical") \in Range(trace.ver.pre)
    /\ \A i \in 1..Len(trace.ver.post) : trace.ver.post[i].name # DkrRedis
    /\ ~trace.ver.out.original_resolved

\* C15: verify returns original_resolved true only if the named check is in
\* the post-repair sweep with status ok.
C15_ResolvedOnlyIfOk ==
    LET v == trace.ver IN
    (v.called /\ v.out.original_resolved)
    => \E i \in 1..Len(v.post) : v.post[i].name = v.name /\ v.post[i].status = "ok"

\* C16: rollback_systemd and rollback_container issue a stop command only
\* for a target of the static allow-list of its kind.
C16_RollbackOnlyAllowed ==
    \A i \in 1..Len(trace.rb.cmds) :
       /\ trace.rb.kind = "systemd" => trace.rb.cmds[i].target \in ALLOWED_SERVICES
       /\ trace.rb.kind = "container" => trace.rb.cmds[i].target \in ALLOWED_CONTAINERS

\* C17: a restart refused because its target is empty or outside the
\* allow-list runs no command and leaves the rate window as it was: the
\* window holds as many entries after the call as it held live ones before.
C17_RefusalKeepsBudget ==
    trace.exec.result.message \in {"no_service_name", "service_not_allowed",
                                   "no_container_name", "container_not_allowed"}
    => (trace.exec.cmds = <<>> /\ Len(action_log) = trace.exec.window)

\* C18: when a monitoring cycle that follows a repair cycle ended with the
\* original check persisting finds that check still failing, it pushes a
\* report for it to the queue.
C18_PersistedReportedAgain ==
    (/\ trace.mon.after = "persisted"
     /\ \E i \in 1..Len(trace.mon.sweep) :
           trace.mon.sweep[i].name = task.name /\ FailingStatus(trace.mon.sweep[i].status))
    => task.name \in trace.mon.pushed

\* C19: when the agent is idle with an empty queue, no check whose latest
\* status seen by the monitor is ok has a FailureCounter entry.
C19_CounterOnlyWhileFailing ==
    (pc = "idle" /\ queue = <<>>)
    => \A name \in DOMAIN failure_counts : PrevStatus(previous_states, name) # "ok"

\* C20: a classify call with a failing status that returns a plan leaves the
\* FailureCounter of its check one above what it was, whatever the name.
C20_EveryFailureCounted ==
    (FailingStatus(trace.cls.status) /\ trace.cls.plan # NoPlan)
    => GetCount(failure_counts, trace.cls.name) = trace.cls.before + 1

\* C21: classify returns a plan for every report whose status is critical or
\* warning, whatever the check name; a name matching no rule gets an APPROVE
\* plan: investigate_agent for an "Agent:" name, notify_admin otherwise.
C21_PlanForEveryFailing ==
    trace.cls.status \in {"critical", "warning"} =>
        /\ trace.cls.plan # NoPlan
        /\ trace.cls.plan.level \in {AUTO, APPROVE, CURSOR}
        /\ trace.cls.plan.source_check = trace.cls.name
        /\ (\A i \in 1..Len(REPAIR_RULES) : ~RuleMatches(trace.cls.name, REPAIR_RULES[i])) =>
               /\ trace.cls.plan.level = APPROVE
               /\ trace.cls.plan.action =
                      IF trace.cls.name[1] = "Agent:" THEN "investigate_agent" ELSE "notify_admin"

\* a warning report of a check no rule names has been classified
C21_Witness ==
    /\ trace.cls.name = NmDispatcher
    /\ trace.cls.status = "warning"
    /\ trace.cls.plan.level = APPROVE
    /\ trace.cls.plan.action = "notify_admin"

\* C22: reports are handled in the order they were enqueued: a push adds
\* at the tail of the queue and leaves the reports before it in place, and
\* the report a cycle takes up is the oldest one of the queue, the others
\* keeping their order; no report overtakes another.
C22_Fifo ==
    [][/\ (Len(queue') > Len(queue) => SubSeq(queue', 1, Len(queue)) = queue)
       /\ (pc = "idle" /\ pc' = "process" =>
              /\ queue # <<>>
              /\ task' = queue[1]
              /\ queue' = SubSeq(queue, 2, Len(queue)))
       /\ (Len(queue') < Len(queue) => pc = "idle" /\ pc' = "process")]_vars

\* a report was taken up while a different, younger one stays queued
C22_Witness ==
    /\ pc = "process"
    /\ task.name = SvcGateway
    /\ queue # <<>>
    /\ queue[1].name = NmCPU

\* C23: at most one report is being processed at any instant. A cycle begins
\* only when the cycle of the previously dequeued report has finished (the
\* loop is back at its queue poll with nothing of that cycle left: no report,
\* no plan, no awaited request, no classify, execute or verify call on
\* record), and every classify call, approval wait, rate check and
\* verification belongs to the one report in hand.
C23_OneReportAtATime ==
    [][/\ (pc' = "process" /\ pc # "process" =>
              /\ pc = "idle"
              /\ task = NoTask /\ plan = NoPlan /\ request_id = 0
              /\ trace = NoTrace)
       /\ (trace'.cls # trace.cls /\ trace'.cls # NoClassify =>
              /\ pc = "process"
              /\ trace'.cls.name = task.name /\ task' = task)
       /\ (pc' = "wait" /\ pc # "wait" =>
              /\ task' = task /\ task # NoTask
              /\ plan'.source_check = task.name
              /\ request_id' = next_id /\ request_id = 0)
       /\ (trace'.exec # trace.exec /\ trace'.exec # NoExec =>
              /\ trace'.exec.action = plan.action
              /\ plan.source_check = task.name /\ task' = task)
       /\ (trace'.verify_called /\ ~trace.verify_called =>
              /\ pc = "post"
              /\ plan.source_check = task.name /\ task' = task)]_vars

\* a second report waits in the queue while the cycle of the first one is
\* in its approval wait
C23_Witness ==
    /\ pc = "wait"
    /\ queue # <<>>
    /\ task # NoTask
    /\ request_id # 0

\* C24: a cycle for a failing report of a check whose rule is AUTO with a
\* restart action, with no failure counted before, whose restart succeeded
\* and whose verification found the check ok with no new failing check, ends
\* with exactly one RepairRecord - level AUTO, the restart action of the rule,
\* result.success true - and with the failure counter of the check cleared.
C24_HappyPath ==
    (/\ pc = "done"
     /\ FailingStatus(task.status)
     /\ FirstMatch(task.name) # 0
     /\ REPAIR_RULES[FirstMatch(task.name)].level = AUTO
     /\ REPAIR_RULES[FirstMatch(task.name)].action \in {"restart_systemd", "restart_container"}
     /\ trace.cls.before = 0
     /\ trace.exec.result.success
     /\ trace.verification = "success")
    => /\ trace.records = 1
       /\ repair_history # <<>>
       /\ LET rec == repair_history[Len(repair_history)] IN
          /\ rec.check = task.name
          /\ rec.level = AUTO
          /\ rec.action = REPAIR_RULES[FirstMatch(task.name)].action
          /\ rec.result.success
       /\ task.name \notin DOMAIN failure_counts

\* the gateway service was restarted by the first cycle for it and verified
C24_Witness ==
    /\ pc = "done"
    /\ task = [name |-> SvcGateway, status |-> "critical"]
    /\ trace.cls.before = 0
    /\ trace.exec.action = "restart_systemd"
    /\ trace.exec.result.success
    /\ trace.verification = "success"
    /\ trace.records = 1

\* the timeout notifications the cycle has sent so far
TimeoutNotes == Cardinality({i \in 1..Len(trace.notes) : trace.notes[i] = "approval_timeout"})

\* C25: a cycle whose approval wait ended by timeout sends exactly one
\* timeout notification for its request; a cycle whose wait ended by a
\* decision of the admin (a rejection as well as an approval), or has not
\* ended, sends none.
C25_TimeoutNotifiedOnce ==
    /\ (trace.wait_result = "timeout" => TimeoutNotes = 1)
    /\ (trace.wait_result # "timeout" => TimeoutNotes = 0)

\* a cycle whose wait timed out has come to its end
C25_Witness ==
    /\ pc = "done"
    /\ request_id # 0
    /\ trace.wait_result = "timeout"
    /\ trace.records = 1
    /\ TimeoutNotes = 1

\* C26: the RepairRecord of a cycle whose approval timed out differs in its
\* result message from the record of a cycle whose approval was explicitly
\* rejected, for APPROVE and for CURSOR plans: the record of a rejected
\* cycle carries the refusal message of its level, the record of a timed-out
\* cycle of that level carries another one.
C26_TimeoutRecordDiffers ==
    (pc = "done" /\ trace.records = 1 /\ plan.level \in {APPROVE, CURSOR}) =>
        LET rec == repair_history[Len(repair_history)] IN
        /\ (trace.wait_result = "rejected" => rec.result.message = RefusedMessage(plan.level))
        /\ (trace.wait_result = "timeout" => rec.result.message # RefusedMessage(plan.level))

\* C27: with no credential configured, every call to the code-fix service
\* (launch, status poll, follow-up) returns a configuration error and sends
\* no request.
C27_NoKeyNoRequest ==
    (trace.cur.api_key = "" /\ trace.cur.call \in {"launch_repair", "get_agent_status", "send_followup"})
    => /\ trace.cur.net = {}
       /\ ~trace.cur.result.success
       /\ trace.cur.result.error = "api_key_not_configured"

\* what holds of a wait_for_completion call at every moment
WaitInv ==
    trace.cur.call = "wait_for_completion" =>
        LET c == trace.cur
            final == TERMINAL_OK \cup TERMINAL_FAILED
        IN /\ c.net \subseteq {"GET_agent"}
           /\ c.polls <= (CURSOR_TIMEOUT \div POLL_INTERVAL) + 1
           /\ ~c.returned =>
                 /\ pc = "cursor_poll"
                 /\ c.elapsed <= CURSOR_TIMEOUT
                 /\ c.polls > 0 => c.seen \notin final
           /\ c.returned =>
                 /\ pc = "idle"
                 /\ \/ /\ c.result.success
                       /\ c.seen \in TERMINAL_OK /\ c.result.status = c.seen
                       /\ c.elapsed <= CURSOR_TIMEOUT
                    \/ /\ ~c.result.success /\ c.result.error = "agent_failed"
                       /\ c.seen \in TERMINAL_FAILED /\ c.result.status = c.seen
                       /\ c.elapsed <= CURSOR_TIMEOUT
                    \/ /\ ~c.result.success /\ c.result.error = "timed_out"
                       /\ c.seen \notin final
                       /\ c.elapsed > CURSOR_TIMEOUT

\* C28: wait_for_completion always returns. It returns success on the
\* first poll that shows completed, succeeded or done, failure on the first
\* poll that shows failed, error or cancelled, and a timeout failure when
\* the elapsed time it computes exceeds the timeout, not before. A failed
\* poll ends nothing: polling goes on. The only requests of the call are
\* status polls: no cancel request is sent, on timeout or otherwise.
C28_WaitReturns ==
    /\ []WaitInv
    /\ (pc = "cursor_poll") ~> (pc = "idle" /\ trace.cur.returned)

\* the wait has returned a timeout failure after polls that all failed, the
\* last one made when the elapsed time was exactly the timeout
C28_Witness ==
    /\ trace.cur.call = "wait_for_completion"
    /\ trace.cur.returned
    /\ trace.cur.result.error = "timed_out"
    /\ trace.cur.seen = "poll_failed"
    /\ trace.cur.polls = (CURSOR_TIMEOUT \div POLL_INTERVAL) + 1
    /\ trace.cur.net = {"GET_agent"}

\* C29: a service restart runs the sudo command only after the unprivileged
\* attempt failed with a recognised signature (no such file, not loaded,
\* access denied); an unprivileged attempt that failed otherwise, or that
\* succeeded, is followed by no sudo command.
C29_SudoOnlyOnSignature ==
    (\E i \in 1..Len(trace.exec.cmds) : trace.exec.cmds[i].cmd = "sudo_systemctl_restart")
    => trace.exec.user = "sig"

\* C30: an execute call for log_and_wait returns success, runs no command
\* and no handler, is never refused by the rate limit (not even with three
\* actions in the window) and leaves the action log as it was.
C30_LogAndWaitFree ==
    [][(ncalls' = ncalls + 1 /\ trace'.exec.action = "log_and_wait") =>
          /\ trace'.exec.result = Res(TRUE, "logged")
          /\ trace'.exec.cmds = <<>>
          /\ ~trace'.exec.limited
          /\ ~trace'.exec.handler
          /\ action_log' = action_log]_vars

\* log_and_wait was called with three actions in the window
C30_Witness ==
    /\ trace.exec.action = "log_and_wait"
    /\ trace.exec.window = MAX_ACTIONS_PER_HOUR
    /\ trace.exec.result.success
    /\ Len(action_log) = MAX_ACTIONS_PER_HOUR

\* C31: at every moment the handlers that execute has started within the
\* last hour - those that returned success, those that returned failure and
\* those that raised - are at most MAX_ACTIONS_PER_HOUR.
C31_AtMostThreeHandlers ==
    Len(Prune(attempts, now)) <= MAX_ACTIONS_PER_HOUR

\* C32: the FailureCounter of a check is cleared only by the classify call
\* for a non-failing report of that check or by the end of a cycle for that
\* check whose repair was verified successful, and it is changed otherwise
\* only by the classify call for a failing report of that check, which adds
\* one. So a cycle that ends in rejection, approval timeout, command
\* failure, rate-limit refusal, persisted or regressed verification leaves
\* the counter at the value classify gave it, and no call for one check
\* touches the counter of another.
C32_CounterClearedOnlyByOkOrSuccess ==
    [][\A n \in DOMAIN failure_counts :
          /\ n \notin DOMAIN failure_counts' =>
                /\ task.name = n
                /\ \/ pc = "process" /\ ~FailingStatus(task.status)
                   \/ /\ pc = "post"
                      /\ result.success
                      /\ trace'.verify_called /\ trace'.verification = "success"
          /\ (n \in DOMAIN failure_counts' /\ failure_counts'[n] # failure_counts[n]) =>
                /\ task.name = n
                /\ pc = "process" /\ FailingStatus(task.status)
                /\ failure_counts'[n] = failure_counts[n] + 1]_vars

\* a cycle for the gateway service ended in the rejection of the escalated
\* plan, the counter standing where classify left it
C32_Witness ==
    /\ pc = "done"
    /\ task.name = SvcGateway
    /\ plan.level = CURSOR
    /\ trace.wait_result = "rejected"
    /\ trace.records = 1
    /\ GetCount(failure_counts, SvcGateway) = trace.cls.before + 1

C34_RuleTableUnchanged ==
    LET c == trace.cls
        i == FirstMatch(c.name)
    IN (FailingStatus(c.status) /\ i # 0 /\ REPAIR_RULES[i].level = AUTO) =>
          /\ c.before < ESCALATION_THRESHOLD =>
                /\ c.plan.level = REPAIR_RULES[i].level
                /\ c.plan.action = REPAIR_RULES[i].action
                /\ c.plan.problem_type = REPAIR_RULES[i].problem_type
          /\ c.before >= ESCALATION_THRESHOLD =>
                /\ c.plan.level = CURSOR
                /\ c.plan.action = "cursor_diagnose"
                /\ c.plan.problem_type = REPAIR_RULES[i].problem_type

\* the first failing report of the gateway service after it was escalated
\* and its counter cleared gets the restart of the rule again
C34_Witness ==
    /\ trace.cls.name = SvcGateway
    /\ SvcGateway \in trace.cls.escalated
    /\ trace.cls.status = "critical"
    /\ trace.cls.before = 0
    /\ trace.cls.plan.level = AUTO
    /\ trace.cls.plan.action = "restart_systemd"

\* C35: the rate limit is a sliding window. After an execute call that goes
\* through the rate check no entry of the action log is one hour old or
\* older; the call is refused exactly when three or more entries younger
\* than one hour are on record, so a call is accepted as soon as fewer than
\* three are, whatever was refused before; and a refusal adds no entry.
C35_SlidingWindow ==
    [][(ncalls' = ncalls + 1 /\ trace'.exec.action # "log_and_wait") =>
          LET young == {i \in 1..Len(action_log) : now - action_log[i] < HOUR} IN
          /\ \A i \in 1..Len(action_log') : now - action_log'[i] < HOUR
          /\ trace'.exec.limited <=> Cardinality(young) >= MAX_ACTIONS_PER_HOUR
          /\ trace'.exec.limited =>
                /\ ~trace'.exec.handler
                /\ Len(action_log') = Cardinality(young)
                /\ now \notin Range(action_log') \ Range(action_log)
          /\ ~trace'.exec.limited => Len(action_log') <= Cardinality(young) + 1]_vars

\* the fifth call, made one hour after the first ones, finds the window
\* empty and is dispatched
C35_Witness ==
    /\ ncalls = MaxCalls
    /\ now = HOUR
    /\ trace.exec.action = "restart_systemd"
    /\ trace.exec.window = 0
    /\ trace.exec.handler
    /\ action_log = <<HOUR>>

\* C36: every action the orchestrator passes to Executor.execute is
\* log_and_wait or an action the executor has a handler for, so no execute
\* call of a cycle returns the unknown-action failure.
C36_NoUnknownAction ==
    ExecCalled =>
        /\ trace.exec.action = "log_and_wait" \/ HasHandler(trace.exec.action)
        /\ trace.exec.result.message # "unknown_action"

\* C37: for a check whose rule action is log_and_wait (CPU, RAM) a cycle
\* whose log_and_wait succeeded is not verified and leaves the FailureCounter
\* where classify put it; so the first three failing reports of the check get
\* the AUTO log_and_wait plan and the fourth one gets a CURSOR plan, for which
\* an approval request is sent, although every earlier cycle succeeded.
C37_LogAndWaitEscalates ==
    /\ (pc = "done" /\ trace.exec.action = "log_and_wait") =>
          /\ trace.exec.result.success /\ result.success
          /\ ~trace.verify_called
          /\ GetCount(failure_counts, task.name) = trace.cls.before + 1
    /\ (trace.cls.name \in {NmCPU, NmRAM} /\ FailingStatus(trace.cls.status)) =>
          /\ GetCount(streak, trace.cls.name) <= ESCALATION_THRESHOLD =>
                (trace.cls.plan.level = AUTO /\ trace.cls.plan.action = "log_and_wait")
          /\ GetCount(streak, trace.cls.name) > ESCALATION_THRESHOLD =>
                /\ trace.cls.plan.level = CURSOR
                /\ trace.cls.plan.action = "cursor_diagnose"
                /\ pc \in {"cursor", "wait"}
                /\ pc = "wait" => "approval_request" \in Range(trace.notes)

\* the fourth CPU report in a row has led to an approval request for a code
\* fix, after three cycles that logged and succeeded
C37_Witness ==
    /\ pc = "wait"
    /\ task.name = NmCPU
    /\ GetCount(streak, NmCPU) = ESCALATION_THRESHOLD + 1
    /\ plan.level = CURSOR
    /\ request_id # 0
    /\ Len(repair_history) > 0
    /\ repair_history[Len(repair_history)].action = "log_and_wait"
    /\ repair_history[Len(repair_history)].result.success

\* the changes to a failing status in a sequence of observed statuses: the
\* first observation, if failing, and every failing status that differs
\* from the one observed before it
ChangesToFailing(seen) ==
    Cardinality({k \in 1..Len(seen) :
                    FailingStatus(seen[k]) /\ (k = 1 \/ seen[k - 1] # seen[k])})

\* C38: the monitor pushes exactly one repair task per observed change of a
\* check's status to critical or warning and none while the status is
\* unchanged or ok, also when a /check cycle runs interleaved with the
\* periodic one: whenever no cycle is under way, the tasks pushed are as
\* many as the changes to a failing status observed.
C38_OnePushPerChange ==
    (\A c \in Coroutines : trace.chk.co[c].at = "idle")
    => npushed = ChangesToFailing(trace.chk.seen)

\* callback data of the form repair_approve:<id> or repair_reject:<id>
ApprovalData(data) ==
    /\ Len(data) \in {3, 4}
    /\ data[1] = "repair_" /\ data[2] \in {"approve", "reject"} /\ data[3] = ":"
    /\ Len(data) = 4 => data[4] # ":"

\* C39: a decision record is written only in response to a callback of the
\* admin user whose data is repair_approve:<id> or repair_reject:<id>, and
\* then for that id with the value of that action; a callback of another
\* user, with malformed data or with another action type leaves every
\* decision record, and the decisions on record for the awaited request, as
\* they were.
C39_OnlyAdminDecides ==
    [][LET written == {k \in DOMAIN approvals' :
                          k \notin DOMAIN approvals \/ approvals'[k] # approvals[k]}
           cb == trace'.cb
       IN /\ written # {} =>
                /\ ncallbacks' = ncallbacks + 1
                /\ cb.user = ADMIN_USER_ID
                /\ ApprovalData(cb.data)
                /\ \A k \in written :
                      /\ k # 0 => <<ToString(k)>> = SubSeq(cb.data, 4, Len(cb.data))
                      /\ approvals'[k] = IF cb.data[2] = "approve" THEN "approved" ELSE "rejected"
          /\ (ncallbacks' = ncallbacks + 1 /\ ~(cb.user = ADMIN_USER_ID /\ ApprovalData(cb.data))) =>
                /\ approvals' = approvals
                /\ trace'.decisions = trace.decisions]_vars

\* another user pressed Approve for the awaited request, and the wait timed
\* out with no decision on record
C39_Witness ==
    /\ trace.cb.user = "other"
    /\ request_id # 0
    /\ trace.cb.data = <<"repair_", "approve", ":", ToString(request_id)>>
    /\ trace.cb.answer = "access_denied"
    /\ trace.wait_result = "timeout"
    /\ trace.decisions = <<>>
    /\ approvals = <<>>

\* C40: the pending table of ApprovalManager holds exactly the ids of the
\* request_approval calls in flight: an id is in it from the moment its call
\* has stored the future, before the message is sent, until the call returns
\* or raises (approved, rejected, timed out, send failure), and never after;
\* handle_callback for an id that is absent or whose future is already
\* resolved changes nothing.
C40_PendingIsInFlight ==
    /\ [](/\ DOMAIN trace.am.pending = DOMAIN trace.am.calls
          /\ DOMAIN trace.am.pending \cap DOMAIN trace.am.returned = {}
          /\ DOMAIN trace.am.pending \cup DOMAIN trace.am.returned = 1..trace.am.nids)
    /\ [][(trace'.am.ncb = trace.am.ncb + 1
           /\ (trace'.am.last.id \notin DOMAIN trace.am.pending
               \/ trace.am.pending[trace'.am.last.id] # "waiting"))
          => /\ trace'.am.pending = trace.am.pending
             /\ trace'.am.calls = trace.am.calls
             /\ trace'.am.returned = trace.am.returned]_vars

\* one request has timed out and left the table, a click for it came late
\* and took no effect, and another request is still waiting in the table
C40_Witness ==
    \E id \in DOMAIN trace.am.returned :
        /\ trace.am.returned[id] = "timeout"
        /\ trace.am.last.id = id /\ ~trace.am.last.took
        /\ id \notin DOMAIN trace.am.pending
        /\ \E other \in DOMAIN trace.am.pending : trace.am.calls[other] = "wait"

====
